---- MODULE Spec2Model ----
(***************************************************************************)
(* Script-to-timeline assembly engine of texting-video-app (src/worker.js) *)
(* as state machines: the frame scheduler and frame writer, the silence    *)
(* trimmer, the speech cache with the job pipeline, the script parser and  *)
(* the scene loop that turns the parse result into the timeline; and the   *)
(* job server in front of it (src/server.js).                              *)
(* Each component has its own specification; the variables of the other    *)
(* components rest at their idle values while one component runs.          *)
(*                                                                         *)
(* Times are exact rationals on a grid: milliseconds in the frame          *)
(* scheduler, ticks of 80 ms in the silence trimmer, the unit of the audio *)
(* files in the scene loop, periods of ten minutes in the job server.      *)
(***************************************************************************)
EXTENDS Integers, Sequences, FiniteSets, TLC

VARIABLES
  \* ---- writeVideoWithFfmpeg ----
  wvPc,            \* position inside writeVideoWithFfmpeg
  fps,             \* parameter fps
  durations,       \* wavFiles.map(getAudioDuration), milliseconds
  frameCanvases,   \* parameter frameCanvases: "null" or an image
  cumulative,      \* running cumulative duration, milliseconds
  prevEndFrame,
  frameCounts,
  si,              \* index of the scene loop (0-based as in the source)
  frameIdx,
  lastFrameJpeg,
  frameDir,        \* the frames written to <outputPath>_frames, in order
  frameDirExists   \* whether the directory <outputPath>_frames exists

framesVars == <<wvPc, fps, durations, frameCanvases, cumulative, prevEndFrame,
                frameCounts, si, frameIdx, lastFrameJpeg, frameDir,
                frameDirExists>>

VARIABLES
  \* ---- timeline cursor of runTextingVideo and removeSilenceFromVideo ----
  rsPc,                  \* position: building, muxed, slabs, select, done
  clips,                 \* the resolved clips in script order
  clipIdx,               \* clips consumed by the timeline builder
  curT,                  \* cumulative time cursor, ticks
  breakProtectedRanges,
  duration,              \* info.duration of the muxed clip, ticks
  slabs,
  slabIdx,
  speech,                \* result of the latest detectNonsilentRanges call
  keepRanges,
  trimEncode,            \* "notrun", "ok" or "failed": the trimming encode
  outputVideo,           \* "absent", "copy" (of the input) or "trimmed"
  rsResult,              \* "pending", "returned" or "thrown"
  silenceTmpDir          \* whether the silence_ temporary directory exists

trimVars == <<rsPc, clips, clipIdx, curT, breakProtectedRanges, duration,
              slabs, slabIdx, speech, keepRanges, trimEncode, outputVideo, rsResult,
              silenceTmpDir>>

VARIABLES
  \* ---- runTextingVideo with genAi33ProAudio: one job ----
  jobPc,            \* position of the job
  msgs,             \* the speech resolutions of the script, in order
  msgIdx,           \* messages whose scene is complete
  ttsCache,         \* content of each cache file: "absent", "empty" or audio
  cachedAtStart,    \* the cache file's content when the resolution began
  postsNow,         \* POST requests made by the resolution in progress
  outMp3,           \* content written to outPath by the resolution
  synthCalls,       \* POST requests per (speaker, text) pair, whole job
  resolved,         \* log of the finished genAi33ProAudio calls
  failure,          \* "none" or the stage that threw
  stagesRun,        \* assembly and trimming stages that were started
  tmpDir,           \* whether the texting_video_ directory exists
  rawOutputFile,    \* whether the _raw.mp4 file exists
  finalOutputFile   \* whether the final .mp4 file exists

jobVars == <<jobPc, msgs, msgIdx, ttsCache, cachedAtStart, postsNow, outMp3,
             synthCalls, resolved, failure, stagesRun, tmpDir, rawOutputFile,
             finalOutputFile>>

VARIABLES
  \* ---- parseFileSettingsAndThreads ----
  parsePc,          \* "pass1", "pass2" or "done"
  lines,            \* the trimmed, non-empty lines of the script
  filteredLines,
  lineIdx,          \* lines of filteredLines consumed by the second pass
  unreadCount,
  uiCornerRadius,
  threads,
  currentContact,   \* <<>> for null, else <<contact>>
  currentMsgs,
  contactAvatar,    \* <<>> for null, else <<avatar>>
  pendingPlugsay,   \* <<>> for null, else <<intro>>
  pendingRizzsay,
  handledAs         \* the branch of the loop body each consumed line took

\* The calls of the parser made so far on the script, and what the first
\* call returned.
VARIABLES parseCalls, firstResult

parseVars == <<parsePc, lines, filteredLines, lineIdx, unreadCount,
               uiCornerRadius, threads, currentContact, currentMsgs,
               contactAvatar, pendingPlugsay, pendingRizzsay, handledAs,
              parseCalls, firstResult>>

VARIABLES
  \* ---- the scene loop of runTextingVideo ----
  buildPc,          \* "idle", "scenes", "muxed" or "failed"
  threadIdx,        \* threads wholly processed by the outer loop
  start,            \* start of the current page within the thread
  winIdx,           \* messages of the current window processed (i - 1)
  sceneIdx,
  scenesData,
  wavFiles,
  messageTimeline,
  allRenderedMsgs,
  synthLog,         \* the calls of genAi33ProAudio, in order
  cardLog,          \* the calls of runPlugSelenium / runRizzSelenium
  sceneLog          \* for each timeline record: thread, message, part,
                    \* window start, poster flag and outcome of the effect

buildVars == <<buildPc, threadIdx, start, winIdx, sceneIdx, scenesData,
               wavFiles, messageTimeline, allRenderedMsgs, synthLog, cardLog,
               sceneLog>>

\* The job server: the job store, the files of each job, the ids of the
\* workers that have neither reported nor exited, the next fresh job id, the
\* pending download timers and the answer sent by the step just taken;
\* sinceDone counts the clock periods since a job was reported done.
VARIABLES jobs, files, workers, nextJob, graceTimers, response, sinceDone

\* The workers that have sent their report and not yet exited, each with the
\* report it sent, and the exit the step just taken has seen.
VARIABLES exiting, lastExit

serverVars == <<jobs, files, workers, nextJob, graceTimers, response,
                sinceDone, exiting, lastExit>>

vars == <<framesVars, trimVars, jobVars, parseVars, buildVars, serverVars>>

\* ------------------------------------------------------------------------
\* Bounds of the model
\* ------------------------------------------------------------------------
MaxScenes == 3
MaxClips == 3
MaxSilences == 2
MaxMsgs == 3
MaxLines == 3
MaxThreadLines == 4
MaxBuildLines == 3
MaxCardLines == 3
MaxRunLines == 3
MaxJobs == 3
MaxSegs == 5
MaxPageLines == 10
MaxTimelineLines == 3
MaxPreambleLines == 4
MaxPendingLines == 4

\* ------------------------------------------------------------------------
\* Helpers on sequences
\* ------------------------------------------------------------------------
RECURSIVE SumSeq(_)
SumSeq(s) == IF s = <<>> THEN 0 ELSE Head(s) + SumSeq(Tail(s))

RECURSIVE Repeat(_, _)
Repeat(x, n) == IF n <= 0 THEN <<>> ELSE <<x>> \o Repeat(x, n - 1)

SeqsUpTo(S, n) == UNION {[1..k -> S] : k \in 0..n}

Max(a, b) == IF a >= b THEN a ELSE b
Min(a, b) == IF a <= b THEN a ELSE b

\* ========================================================================
\* writeVideoWithFfmpeg (src/worker.js 1721-1794)
\* ========================================================================

\* Measured clip durations, in milliseconds.
DurationChoices == {0, 17, 50, 334}
\* Frame rates: the pipeline passes 30; the function takes any.
FpsChoices == {24, 30}
\* An entry of scenesData: a rendered canvas, or null (break, audio-only
\* message, plug reply).
CanvasChoices == {"null", "imgA", "imgB"}

\* Math.round(ms / 1000 * f) for ms, f >= 0: floor(x + 0.5).
MathRoundFrames(ms, f) == (2 * ms * f + 1000) \div 2000

\* Lines 1728-1729 with independent per-scene rounding instead of the
\* difference of rounded cumulative times.
EndFrameIndependent(cum, d, f, prev) == prev + MathRoundFrames(d, f)

\* Line 1728: endFrame = Math.round(cumulative * fps), cumulative already
\* advanced by d.
EndFrame(cum, d, f, prev) == MathRoundFrames(cum + d, f)

\* The server before any request: an empty store (19), no file, no worker.
NoResponse == [hasScript |-> FALSE, apiKey |-> "", ttsProvider |-> "", code |-> 0]

NoExit == [job |-> 0, report |-> "none", code |-> "none"]

ServerIdle ==
  /\ exiting = <<>>
  /\ lastExit = NoExit
  /\ jobs = <<>>
  /\ files = [j \in 1..MaxJobs |-> [jobDir |-> FALSE, output |-> FALSE]]
  /\ workers = {}
  /\ nextJob = 1
  /\ graceTimers = {}
  /\ response = NoResponse
  /\ sinceDone = <<>>

TrimIdle ==
  /\ rsPc = "idle"
  /\ clips = <<>>
  /\ clipIdx = 0
  /\ curT = 0
  /\ breakProtectedRanges = <<>>
  /\ duration = 0
  /\ slabs = <<>>
  /\ slabIdx = 0
  /\ speech = <<>>
  /\ keepRanges = <<>>
  /\ trimEncode = "notrun"
  /\ outputVideo = "absent"
  /\ rsResult = "pending"
  /\ silenceTmpDir = FALSE

JobIdle ==
  /\ jobPc = "idle"
  /\ msgs = <<>>
  /\ msgIdx = 0
  /\ ttsCache = <<>>
  /\ cachedAtStart = "absent"
  /\ postsNow = 0
  /\ outMp3 = "absent"
  /\ synthCalls = <<>>
  /\ resolved = <<>>
  /\ failure = "none"
  /\ stagesRun = {}
  /\ tmpDir = FALSE
  /\ rawOutputFile = FALSE
  /\ finalOutputFile = FALSE

BuildIdle ==
  /\ buildPc = "idle"
  /\ threadIdx = 0
  /\ start = 0
  /\ winIdx = 0
  /\ sceneIdx = 0
  /\ scenesData = <<>>
  /\ wavFiles = <<>>
  /\ messageTimeline = <<>>
  /\ allRenderedMsgs = <<>>
  /\ synthLog = <<>>
  /\ cardLog = <<>>
  /\ sceneLog = <<>>

ParseIdle ==
  /\ parsePc = "idle"
  /\ lines = <<>>
  /\ filteredLines = <<>>
  /\ lineIdx = 0
  /\ unreadCount = <<"999999+">>
  /\ uiCornerRadius = 50
  /\ threads = <<>>
  /\ currentContact = <<>>
  /\ currentMsgs = <<>>
  /\ contactAvatar = <<>>
  /\ pendingPlugsay = <<>>
  /\ pendingRizzsay = <<>>
  /\ handledAs = <<>>
  /\ parseCalls = 0
  /\ firstResult = <<>>

InitFrames ==
  /\ BuildIdle
  /\ ServerIdle
  /\ TrimIdle
  /\ JobIdle
  /\ ParseIdle
  /\ wvPc = "count"
  /\ fps \in FpsChoices
  /\ \E n \in 1..MaxScenes :
       /\ durations \in [1..n -> DurationChoices]
       /\ frameCanvases \in [1..n -> CanvasChoices]
  /\ cumulative = 0
  /\ prevEndFrame = 0
  /\ frameCounts = <<>>
  /\ si = 0
  /\ frameIdx = 0
  /\ lastFrameJpeg = "null"
  /\ frameDir = <<>>
  /\ frameDirExists = FALSE

FramesIdle ==
  /\ wvPc = "idle"
  /\ fps = 30
  /\ durations = <<>>
  /\ frameCanvases = <<>>
  /\ cumulative = 0
  /\ prevEndFrame = 0
  /\ frameCounts = <<>>
  /\ si = 0
  /\ frameIdx = 0
  /\ lastFrameJpeg = "null"
  /\ frameDir = <<>>
  /\ frameDirExists = FALSE

\* One iteration of `for (const d of durations)` (1726-1731).
CountStep ==
  /\ wvPc = "count"
  /\ Len(frameCounts) < Len(durations)
  /\ LET d == durations[Len(frameCounts) + 1]
         endFrame == EndFrame(cumulative, d, fps, prevEndFrame)
     IN /\ cumulative' = cumulative + d
        /\ frameCounts' = Append(frameCounts, endFrame - prevEndFrame)
        /\ prevEndFrame' = endFrame
  /\ UNCHANGED <<wvPc, fps, durations, frameCanvases, si, frameIdx,
                 lastFrameJpeg, frameDir, frameDirExists>>
  /\ UNCHANGED <<trimVars, jobVars, parseVars, buildVars, serverVars>>

\* End of the counting loop; mkdirSync(frameDir) (1732-1743).
CountDone ==
  /\ wvPc = "count"
  /\ Len(frameCounts) = Len(durations)
  /\ wvPc' = "write"
  /\ frameDirExists' = TRUE
  /\ UNCHANGED <<fps, durations, frameCanvases, cumulative, prevEndFrame,
                 frameCounts, si, frameIdx, lastFrameJpeg, frameDir>>
  /\ UNCHANGED <<trimVars, jobVars, parseVars, buildVars, serverVars>>

\* One iteration of the scene loop (1745-1762), the inner frame loop included.
WriteScene ==
  /\ wvPc = "write"
  /\ si < Len(frameCanvases)
  /\ LET canvas == frameCanvases[si + 1]
         last == IF canvas # "null" THEN canvas ELSE lastFrameJpeg
         count == IF si + 1 <= Len(frameCounts) THEN frameCounts[si + 1] ELSE 0
     IN /\ lastFrameJpeg' = last
        /\ IF last = "null"    \* `if (!lastFrameJpeg) continue;`
             THEN UNCHANGED <<frameDir, frameIdx>>
             ELSE /\ frameDir' = frameDir \o Repeat(last, count)
                  /\ frameIdx' = frameIdx + (IF count > 0 THEN count ELSE 0)
  /\ si' = si + 1
  /\ UNCHANGED <<wvPc, fps, durations, frameCanvases, cumulative, prevEndFrame,
                 frameCounts, frameDirExists>>
  /\ UNCHANGED <<trimVars, jobVars, parseVars, buildVars, serverVars>>

WriteDone ==
  /\ wvPc = "write"
  /\ si = Len(frameCanvases)
  /\ wvPc' = "encode"
  /\ UNCHANGED <<fps, durations, frameCanvases, cumulative, prevEndFrame,
                 frameCounts, si, frameIdx, lastFrameJpeg, frameDir,
                 frameDirExists>>
  /\ UNCHANGED <<trimVars, jobVars, parseVars, buildVars, serverVars>>

\* spawnSync(ffmpeg ...) exits 0: return outputPath; finally rmSync(frameDir).
EncodeOk ==
  /\ wvPc = "encode"
  /\ wvPc' = "returned"
  /\ frameDirExists' = FALSE
  /\ UNCHANGED <<fps, durations, frameCanvases, cumulative, prevEndFrame,
                 frameCounts, si, frameIdx, lastFrameJpeg, frameDir>>
  /\ UNCHANGED <<trimVars, jobVars, parseVars, buildVars, serverVars>>

\* Non-zero status or a signal: throw; finally rmSync(frameDir).
EncodeFail ==
  /\ wvPc = "encode"
  /\ wvPc' = "thrown"
  /\ frameDirExists' = FALSE
  /\ UNCHANGED <<fps, durations, frameCanvases, cumulative, prevEndFrame,
                 frameCounts, si, frameIdx, lastFrameJpeg, frameDir>>
  /\ UNCHANGED <<trimVars, jobVars, parseVars, buildVars, serverVars>>

NextFrames ==
  \/ CountStep
  \/ CountDone
  \/ WriteScene
  \/ WriteDone
  \/ EncodeOk
  \/ EncodeFail

SpecFrames == InitFrames /\ [][NextFrames]_vars

\* ------------------------------------------------------------------------
\* Properties of writeVideoWithFfmpeg
\* ------------------------------------------------------------------------

\* C1: frame-count conservation. After every prefix of the counting loop the
\* frame counts computed so far sum to round(sum of the durations so far *
\* fps), and every frame count is >= 0.
C1_FrameCountConservation ==
  LET k == Len(frameCounts)
  IN /\ SumSeq(frameCounts) = MathRoundFrames(SumSeq(SubSeq(durations, 1, k)), fps)
     /\ \A i \in 1..k : frameCounts[i] >= 0

\* C1 witness: the loop has finished a list of at least two scenes in which
\* some scene's count differs from its independently rounded duration.
C1_Witness ==
  /\ wvPc = "write"
  /\ Len(frameCounts) >= 2
  /\ \E i \in 1..Len(frameCounts) :
       frameCounts[i] # MathRoundFrames(durations[i], fps)

\* The image the claim expects during scene i: the canvas of the most recent
\* scene at or before i whose canvas is not null ("null" when there is none).
RECURSIVE CarriedImage(_)
CarriedImage(i) ==
  IF i = 0 THEN "null"
  ELSE IF frameCanvases[i] # "null" THEN frameCanvases[i]
  ELSE CarriedImage(i - 1)

\* Number of frames the claim expects before scene i.
FramesBefore(i) == SumSeq(SubSeq(frameCounts, 1, i - 1))

\* C3: once all scenes are written, the frame stream holds, for each scene in
\* order, exactly frameCount_i frames, each the carried-forward image, and
\* the number of frames written is the sum of the frame counts.
C3_FrameStreamComplete ==
  wvPc \in {"encode", "returned", "thrown"} =>
    /\ Len(frameDir) = SumSeq(frameCounts)
    /\ frameIdx = SumSeq(frameCounts)
    /\ \A i \in 1..Len(frameCanvases) :
         \A f \in 1..frameCounts[i] :
           /\ FramesBefore(i) + f <= Len(frameDir)
           /\ CarriedImage(i) # "null" =>
                frameDir[FramesBefore(i) + f] = CarriedImage(i)

\* The same statement for scene lists whose first canvas is not null.
FrameStreamCompleteAfterFirstCanvas ==
  (wvPc \in {"encode", "returned", "thrown"} /\ frameCanvases[1] # "null") =>
    /\ Len(frameDir) = SumSeq(frameCounts)
    /\ \A i \in 1..Len(frameCanvases) :
         \A f \in 1..frameCounts[i] :
           frameDir[FramesBefore(i) + f] = CarriedImage(i)

\* ========================================================================
\* Timeline cursor (src/worker.js 2029-2041, 2105-2119), media assembly
\* (2128-2137) and removeSilenceFromVideo (1862-1955).  One tick is 80 ms.
\* ========================================================================

\* keepMs = 0.08 s, the guard interval: one tick.
keepMs == 1

\* Measured clip durations, in ticks.
ClipDurChoices == {1, 3}
\* A resolved clip: a break (null frame, protected) or a rendered message.
ClipChoices == [isBreak : BOOLEAN, dur : ClipDurChoices]

\* Duration of the scenes before the first scene that has a canvas: their
\* frames are not written (1754), and mux -shortest (1802) ends the clip
\* with the video stream.
RECURSIVE LeadingNullDuration(_)
LeadingNullDuration(cs) ==
  IF cs = <<>> \/ ~Head(cs).isBreak THEN 0
  ELSE Head(cs).dur + LeadingNullDuration(Tail(cs))

\* What ffmpeg's silencedetect can report for an audio of length len:
\* up to n (silence_start, silence_end) pairs in chronological order.
RECURSIVE SilenceReportsFrom(_, _, _)
SilenceReportsFrom(lo, len, n) ==
  IF n = 0 THEN {<<>>}
  ELSE {<<>>} \cup
       UNION {UNION {{<<<<a, b>>>> \o rest :
                        rest \in SilenceReportsFrom(b + 1, len, n - 1)} :
                     b \in (a + 1)..len} :
              a \in lo..(len - 1)}

SilenceReports(len) == SilenceReportsFrom(0, len, MaxSilences)

\* detectNonsilentRanges, lines 1852-1859: the complement of the silences.
RECURSIVE SpeechFrom(_, _, _)
SpeechFrom(silRanges, cursor, audioDuration) ==
  IF silRanges = <<>>
    THEN IF cursor < audioDuration THEN <<<<cursor, audioDuration>>>> ELSE <<>>
    ELSE LET ss == Head(silRanges)[1]
             se == Head(silRanges)[2]
         IN (IF cursor < ss THEN <<<<cursor, ss>>>> ELSE <<>>)
            \o SpeechFrom(Tail(silRanges), se, audioDuration)

detectNonsilentRanges(silRanges, audioDuration) ==
  SpeechFrom(silRanges, 0, audioDuration)

\* Lines 1882-1886 merging only ranges that overlap, not ranges that touch.
PushKeepStrict(keep, rs, re) ==
  IF Len(keep) > 0 /\ rs < keep[Len(keep)][2]
    THEN [keep EXCEPT ![Len(keep)] = <<@[1], Max(@[2], re)>>]
    ELSE Append(keep, <<rs, re>>)

\* Lines 1882-1886 (and 1916-1920): merge into the last range or push.
PushKeep(keep, rs, re) ==
  IF Len(keep) > 0 /\ rs <= keep[Len(keep)][2]
    THEN [keep EXCEPT ![Len(keep)] = <<@[1], Max(@[2], re)>>]
    ELSE Append(keep, <<rs, re>>)

\* Lines 1879-1887: the loop over the speech spans of the whole track.
RECURSIVE KeepWhole(_, _, _)
KeepWhole(keep, sp, dur) ==
  IF sp = <<>> THEN keep
  ELSE LET rs == Max(0, Head(sp)[1] - keepMs)
           re == Min(dur, Head(sp)[2] + keepMs)
       IN KeepWhole(PushKeep(keep, rs, re), Tail(sp), dur)

\* prot.slice().sort((a, b) => a[0] - b[0]): insertion sort, stable.
RECURSIVE InsertByStart(_, _)
InsertByStart(sorted, r) ==
  IF sorted = <<>> THEN <<r>>
  ELSE IF r[1] < Head(sorted)[1] THEN <<r>> \o sorted
  ELSE <<Head(sorted)>> \o InsertByStart(Tail(sorted), r)

RECURSIVE SortByStart(_)
SortByStart(rs) ==
  IF rs = <<>> THEN <<>>
  ELSE InsertByStart(SortByStart(SubSeq(rs, 1, Len(rs) - 1)), rs[Len(rs)])

\* Lines 1891-1898: alternating unprotected and protected slabs.
RECURSIVE SlabsFrom(_, _, _)
SlabsFrom(prot, cursor, dur) ==
  IF prot = <<>>
    THEN IF cursor < dur
           THEN <<[start |-> cursor, end |-> dur, protected |-> FALSE]>>
           ELSE <<>>
    ELSE LET ps == Head(prot)[1]
             pe == Head(prot)[2]
         IN (IF cursor < ps
               THEN <<[start |-> cursor, end |-> ps, protected |-> FALSE]>>
               ELSE <<>>)
            \o <<[start |-> ps, end |-> pe, protected |-> TRUE]>>
            \o SlabsFrom(Tail(prot), pe, dur)

\* Line 1903 with the protected slab left to silence analysis: nothing of
\* a silent slab is kept.
KeepProtectedDropped(keep, slab) == keep

\* Line 1903: a protected slab is kept verbatim.
KeepProtected(keep, slab) == Append(keep, <<slab.start, slab.end>>)

\* Line 1915 without the clamp to the slab's end.
PadSlabEndUnclamped(slab, e) == slab.start + e + keepMs

\* Line 1915: re = Math.min(slab.end, slab.start + e + keepMs).
PadSlabEnd(slab, e) == Min(slab.end, slab.start + e + keepMs)

\* Lines 1913-1921: the loop over the speech spans of one unprotected slab.
RECURSIVE KeepSlab(_, _, _)
KeepSlab(keep, slab, sp) ==
  IF sp = <<>> THEN keep
  ELSE LET rs == Max(slab.start, slab.start + Head(sp)[1] - keepMs)
           re == PadSlabEnd(slab, Head(sp)[2])
       IN KeepSlab(PushKeep(keep, rs, re), slab, Tail(sp))

\* Length of the audio cut out by `-ss slab.start -to slab.end` (1906-1910)
\* from a track of length dur.
SlabAudioLen(slab, dur) == Max(0, Min(slab.end, dur) - slab.start)

\* Lines 1945-1948 without the copy: the failed encode's output is left.
OutputAfterFailedEncodeLeft == "partial"

\* Lines 1945-1948: a failed trimming encode copies the input to the output.
OutputAfterFailedEncode == "copy"

InitTrim ==
  /\ BuildIdle
  /\ ServerIdle
  /\ FramesIdle
  /\ JobIdle
  /\ ParseIdle
  /\ rsPc = "build"
  /\ clips \in SeqsUpTo(ClipChoices, MaxClips) \ {<<>>}
  /\ clipIdx = 0
  /\ curT = 0
  /\ breakProtectedRanges = <<>>
  /\ duration = 0
  /\ slabs = <<>>
  /\ slabIdx = 0
  /\ speech = <<>>
  /\ keepRanges = <<>>
  /\ trimEncode = "notrun"
  /\ outputVideo = "absent"
  /\ rsResult = "pending"
  /\ silenceTmpDir = FALSE

\* Whether a temporary directory exists after an exception has left the try
\* block that made it: the finally blocks remove it (2139-2140, 1952-1954).
TmpDirAfterThrowLeft == TRUE

TmpDirAfterThrow == FALSE

\* The protected range of a break of measured duration dur read at cursor
\* (2036).
ProtectedRangeFromZero(cursor, dur) == <<0, dur>>

ProtectedRangeOf(cursor, dur) == <<cursor, cursor + dur>>

\* The timeline builder consumes one clip: a break records
\* [curT, curT + actualDur] (2036); every clip advances curT.
BuildClip ==
  /\ rsPc = "build"
  /\ clipIdx < Len(clips)
  /\ LET c == clips[clipIdx + 1]
     IN /\ breakProtectedRanges' =
             IF c.isBreak
               THEN Append(breakProtectedRanges, ProtectedRangeOf(curT, c.dur))
               ELSE breakProtectedRanges
        /\ curT' = curT + c.dur
  /\ clipIdx' = clipIdx + 1
  /\ UNCHANGED <<rsPc, clips, duration, slabs, slabIdx, speech, keepRanges,
                 trimEncode, outputVideo, rsResult, silenceTmpDir>>
  /\ UNCHANGED <<framesVars, jobVars, parseVars, buildVars, serverVars>>

\* Encode and mux succeed (2130-2137); getVideoInfo (1866) then reports the
\* muxed clip's duration.  mkdtempSync(silence_) (1863).
Assemble ==
  /\ rsPc = "build"
  /\ clipIdx = Len(clips)
  /\ \E i \in 1..Len(clips) : ~clips[i].isBreak
  /\ duration' = curT - LeadingNullDuration(clips)
  /\ rsPc' = "trim"
  /\ silenceTmpDir' = TRUE
  /\ UNCHANGED <<clips, clipIdx, curT, breakProtectedRanges, slabs, slabIdx,
                 speech, keepRanges, trimEncode, outputVideo, rsResult>>
  /\ UNCHANGED <<framesVars, jobVars, parseVars, buildVars, serverVars>>

\* The frame encode or the mux fails, as whenever no frame was written:
\* runTextingVideo throws before the trimmer is called.
AssembleFail ==
  /\ rsPc = "build"
  /\ clipIdx = Len(clips)
  /\ rsPc' = "failed"
  /\ rsResult' = "thrown"
  /\ UNCHANGED <<clips, clipIdx, curT, breakProtectedRanges, duration, slabs,
                 slabIdx, speech, keepRanges, trimEncode, outputVideo,
                 silenceTmpDir>>
  /\ UNCHANGED <<framesVars, jobVars, parseVars, buildVars, serverVars>>

\* A call inside the try block of removeSilenceFromVideo throws (getVideoInfo
\* at 1866 on unreadable ffprobe output): the finally block runs (1952-1954).
TrimThrow ==
  /\ rsPc = "trim"
  /\ rsPc' = "thrown"
  /\ rsResult' = "thrown"
  /\ silenceTmpDir' = TmpDirAfterThrow
  /\ UNCHANGED <<clips, clipIdx, curT, breakProtectedRanges, duration, slabs,
                 slabIdx, speech, keepRanges, trimEncode, outputVideo>>
  /\ UNCHANGED <<framesVars, jobVars, parseVars, buildVars, serverVars>>

\* Lines 1875-1887: no protected ranges (null is passed, 2146).
TrimWhole ==
  /\ rsPc = "trim"
  /\ breakProtectedRanges = <<>>
  /\ \E sil \in SilenceReports(duration) :
       LET sp == detectNonsilentRanges(sil, duration)
       IN /\ speech' = sp
          /\ keepRanges' = KeepWhole(<<>>, sp, duration)
  /\ rsPc' = "select"
  /\ UNCHANGED <<clips, clipIdx, curT, breakProtectedRanges, duration, slabs,
                 slabIdx, trimEncode, outputVideo, rsResult, silenceTmpDir>>
  /\ UNCHANGED <<framesVars, jobVars, parseVars, buildVars, serverVars>>

\* Lines 1889-1900: sort the protected ranges and cut the slabs.
TrimPartition ==
  /\ rsPc = "trim"
  /\ breakProtectedRanges # <<>>
  /\ slabs' = SlabsFrom(SortByStart(breakProtectedRanges), 0, duration)
  /\ slabIdx' = 0
  /\ keepRanges' = <<>>
  /\ rsPc' = "slabs"
  /\ UNCHANGED <<clips, clipIdx, curT, breakProtectedRanges, duration, speech,
                 trimEncode, outputVideo, rsResult, silenceTmpDir>>
  /\ UNCHANGED <<framesVars, jobVars, parseVars, buildVars, serverVars>>

\* One iteration of `for (const slab of slabs)` (1901-1923).
ProcessSlab ==
  /\ rsPc = "slabs"
  /\ slabIdx < Len(slabs)
  /\ LET slab == slabs[slabIdx + 1]
     IN IF slab.protected
          THEN /\ keepRanges' = KeepProtected(keepRanges, slab)
               /\ UNCHANGED speech
          ELSE \E sil \in SilenceReports(SlabAudioLen(slab, duration)) :
                 LET sp == detectNonsilentRanges(sil, SlabAudioLen(slab, duration))
                 IN /\ speech' = sp
                    /\ keepRanges' = KeepSlab(keepRanges, slab, sp)
  /\ slabIdx' = slabIdx + 1
  /\ UNCHANGED <<rsPc, clips, clipIdx, curT, breakProtectedRanges, duration,
                 slabs, trimEncode, outputVideo, rsResult, silenceTmpDir>>
  /\ UNCHANGED <<framesVars, jobVars, parseVars, buildVars, serverVars>>

SlabsDone ==
  /\ rsPc = "slabs"
  /\ slabIdx = Len(slabs)
  /\ rsPc' = "select"
  /\ UNCHANGED <<clips, clipIdx, curT, breakProtectedRanges, duration, slabs,
                 slabIdx, speech, keepRanges, trimEncode, outputVideo,
                 rsResult, silenceTmpDir>>
  /\ UNCHANGED <<framesVars, jobVars, parseVars, buildVars, serverVars>>

\* Lines 1929-1932: nothing to keep, copy the input; finally rmSync(tmpDir).
CopyThrough ==
  /\ rsPc = "select"
  /\ keepRanges = <<>>
  /\ outputVideo' = "copy"
  /\ rsResult' = "returned"
  /\ silenceTmpDir' = FALSE
  /\ rsPc' = "done"
  /\ UNCHANGED <<clips, clipIdx, curT, breakProtectedRanges, duration, slabs,
                 slabIdx, speech, keepRanges, trimEncode>>
  /\ UNCHANGED <<framesVars, jobVars, parseVars, buildVars, serverVars>>

\* Lines 1934-1951, the trimming encode exits 0.
TrimEncodeOk ==
  /\ rsPc = "select"
  /\ keepRanges # <<>>
  /\ trimEncode' = "ok"
  /\ outputVideo' = "trimmed"
  /\ rsResult' = "returned"
  /\ silenceTmpDir' = FALSE
  /\ rsPc' = "done"
  /\ UNCHANGED <<clips, clipIdx, curT, breakProtectedRanges, duration, slabs,
                 slabIdx, speech, keepRanges>>
  /\ UNCHANGED <<framesVars, jobVars, parseVars, buildVars, serverVars>>

\* Lines 1934-1951, the trimming encode exits non-zero (or is killed).
TrimEncodeFail ==
  /\ rsPc = "select"
  /\ keepRanges # <<>>
  /\ trimEncode' = "failed"
  /\ outputVideo' = OutputAfterFailedEncode
  /\ rsResult' = "returned"
  /\ silenceTmpDir' = FALSE
  /\ rsPc' = "done"
  /\ UNCHANGED <<clips, clipIdx, curT, breakProtectedRanges, duration, slabs,
                 slabIdx, speech, keepRanges>>
  /\ UNCHANGED <<framesVars, jobVars, parseVars, buildVars, serverVars>>

NextTrim ==
  \/ BuildClip
  \/ Assemble
  \/ AssembleFail
  \/ TrimThrow
  \/ TrimWhole
  \/ TrimPartition
  \/ ProcessSlab
  \/ SlabsDone
  \/ CopyThrough
  \/ TrimEncodeOk
  \/ TrimEncodeFail

SpecTrim == InitTrim /\ [][NextTrim]_vars

\* ------------------------------------------------------------------------
\* Properties of the silence trimmer
\* ------------------------------------------------------------------------
Range(f) == {f[i] : i \in DOMAIN f}

KeepComputed == rsPc \in {"select", "done"}

\* C2: protected-range preservation. Once the keep-range list is computed,
\* every range the timeline builder recorded for a break is fully covered
\* by a keep-range, whatever silence detection reported.
C2_ProtectedRangesKept ==
  KeepComputed =>
    \A i \in 1..Len(breakProtectedRanges) :
      \E k \in 1..Len(keepRanges) :
        /\ keepRanges[k][1] <= breakProtectedRanges[i][1]
        /\ breakProtectedRanges[i][2] <= keepRanges[k][2]

\* C2 witness: a break lies between two messages, the slab before it was
\* reported entirely silent, and the keep-range list is computed.
C2_Witness ==
  /\ rsPc = "select"
  /\ Len(clips) = 3
  /\ ~clips[1].isBreak /\ clips[2].isBreak /\ ~clips[3].isBreak
  /\ Len(keepRanges) = 1
  /\ keepRanges[1] = breakProtectedRanges[1]

\* C7: the trimmer degrades without failing. With an empty keep-range list
\* the output is a copy of the input and no trimming encode ran; after a
\* failed trimming encode the output is a copy of the input; either way the
\* call returned the output path and raised nothing.
C7_TrimmerDegrades ==
  /\ (rsPc = "done" /\ keepRanges = <<>>) =>
       /\ outputVideo = "copy"
       /\ trimEncode = "notrun"
       /\ rsResult = "returned"
  /\ (rsPc = "done" /\ trimEncode = "failed") =>
       /\ outputVideo = "copy"
       /\ rsResult = "returned"

\* C7 witness: the whole track was reported silent, the keep-range list is
\* empty and the trimmer has returned.
C7_Witness ==
  /\ rsPc = "done"
  /\ keepRanges = <<>>
  /\ speech = <<>>
  /\ duration > 0

\* A point x2 / 2 (half ticks) lies in one of the ranges of the set rs.
Covers(rs, x2) == \E r \in rs : 2 * r[1] <= x2 /\ x2 <= 2 * r[2]

\* The padded and clamped speech spans of the whole track.
PaddedSpeech ==
  {<<Max(0, speech[i][1] - keepMs), Min(duration, speech[i][2] + keepMs)>> :
     i \in 1..Len(speech)}

\* C8: with no protected ranges the keep-range list is the coalesced list
\* of the padded, clamped speech spans: it covers exactly the points they
\* cover, lies within [0, duration], is sorted, and every range starts
\* strictly after the previous one ends.
C8_KeepRangesCoalesced ==
  (KeepComputed /\ breakProtectedRanges = <<>>) =>
    /\ \A x2 \in 0..(2 * duration) :
         Covers(Range(keepRanges), x2) <=> Covers(PaddedSpeech, x2)
    /\ \A i \in 1..Len(keepRanges) :
         /\ 0 <= keepRanges[i][1]
         /\ keepRanges[i][1] <= keepRanges[i][2]
         /\ keepRanges[i][2] <= duration
    /\ \A i \in 1..(Len(keepRanges) - 1) :
         keepRanges[i][2] < keepRanges[i + 1][1]

\* C8 witness: three speech spans, the first two padded into touching
\* ranges and merged, the third kept separate.
C8_Witness ==
  /\ rsPc = "select"
  /\ breakProtectedRanges = <<>>
  /\ Len(speech) = 3
  /\ speech[1][2] + keepMs = speech[2][1] - keepMs
  /\ Len(keepRanges) = 2

\* C9 as stated: with protected ranges, no two keep-ranges overlap or are
\* adjacent, and every keep-range lies within [0, duration].
C9_NoAdjacentKeepRanges ==
  (KeepComputed /\ breakProtectedRanges # <<>>) =>
    /\ \A i \in 1..(Len(keepRanges) - 1) :
         keepRanges[i][2] < keepRanges[i + 1][1]
    /\ \A i \in 1..Len(keepRanges) :
         0 <= keepRanges[i][1] /\ keepRanges[i][2] <= duration

\* C9 as stated, the first half alone.
C9_StrictlySeparated ==
  (KeepComputed /\ breakProtectedRanges # <<>>) =>
    \A i \in 1..(Len(keepRanges) - 1) :
      keepRanges[i][2] < keepRanges[i + 1][1]

\* C9 as stated, the second half alone.
C9_WithinDuration ==
  (KeepComputed /\ breakProtectedRanges # <<>>) =>
    \A i \in 1..Len(keepRanges) :
      0 <= keepRanges[i][1] /\ keepRanges[i][2] <= duration

ProtectedStarts == {breakProtectedRanges[i][1] : i \in 1..Len(breakProtectedRanges)}

\* C9 amended: with protected ranges the keep-range list is in chronological
\* order and no two ranges overlap (each starts at or after the end of the
\* previous one); two consecutive ranges touch only where the later one is
\* a protected slab, which is pushed without merging; every range lies
\* within [0, max(duration, end of the timeline)].
C9_KeepRangesOrdered ==
  (KeepComputed /\ breakProtectedRanges # <<>>) =>
    /\ \A i \in 1..(Len(keepRanges) - 1) :
         /\ keepRanges[i][2] <= keepRanges[i + 1][1]
         /\ keepRanges[i][2] = keepRanges[i + 1][1] =>
              keepRanges[i + 1][1] \in ProtectedStarts
    /\ \A i \in 1..Len(keepRanges) :
         /\ 0 <= keepRanges[i][1]
         /\ keepRanges[i][1] <= keepRanges[i][2]
         /\ keepRanges[i][2] <= Max(duration, curT)

\* C9 witness: a speech range reaches the start of the protected slab that
\* follows it, and the two ranges stay adjacent in the list.
C9_Witness ==
  /\ rsPc = "select"
  /\ \E i \in 1..(Len(keepRanges) - 1) :
       /\ keepRanges[i][2] = keepRanges[i + 1][1]
       /\ keepRanges[i + 1] \in Range(breakProtectedRanges)
       /\ keepRanges[i] \notin Range(breakProtectedRanges)

\* ========================================================================
\* One job: runTextingVideo (src/worker.js 1960-2152) resolving speech
\* through genAi33ProAudio (381-423) and the cache (374-379).
\* ========================================================================

\* (speaker, text) pairs of a script.
PairChoices == {<<"Bob", "hi">>, <<"bob ", "hi">>, <<"Bob", "yo">>}

\* speaker.trim().toLowerCase() (377).
SpkNorm(speaker) ==
  CASE speaker = "Bob" -> "bob"
    [] speaker = "bob " -> "bob"
    [] OTHER -> speaker

\* ttsCachePath (374-379): <spkNorm>_<sha256(text), 16 hex digits>.mp3; the
\* hash is taken to be injective on the texts of the script.
ttsCachePath(text, speaker) == <<SpkNorm(speaker), text>>

CachePaths == {ttsCachePath(p[2], p[1]) : p \in PairChoices}

\* What a cache file can hold when the job starts.
CacheFileChoices == {"absent", "empty", "cachedA"}
\* What the download of audio_url can deliver.
AudioChoices == {"empty", "synthA", "synthB"}

\* Line 383 with the test always failing.
CacheHitNever(content) == FALSE

\* Line 383: existsSync(cached) && statSync(cached).size > 0.
CacheHit(content) == content \notin {"absent", "empty"}

\* A rejected request or an error status swallowed instead of thrown: the
\* job goes on with the next message.
PcAfterSynthesisErrorSwallowed == "next"

\* Lines 404, 415 and a rejected axios call: the exception leaves
\* genAi33ProAudio and, uncaught in 1988-2139, runTextingVideo.
PcAfterSynthesisError == "failed"

CurrentPair == msgs[msgIdx + 1]
CurrentPath == ttsCachePath(CurrentPair[2], CurrentPair[1])

InitJob ==
  /\ BuildIdle
  /\ ServerIdle
  /\ FramesIdle
  /\ TrimIdle
  /\ ParseIdle
  /\ jobPc = "resolve"
  /\ msgs \in SeqsUpTo(PairChoices, MaxMsgs) \ {<<>>}
  /\ msgIdx = 0
  /\ ttsCache \in [CachePaths -> CacheFileChoices]
  /\ cachedAtStart = "absent"
  /\ postsNow = 0
  /\ outMp3 = "absent"
  /\ synthCalls = [p \in PairChoices |-> 0]
  /\ resolved = <<>>
  /\ failure = "none"
  /\ stagesRun = {}
  /\ tmpDir = TRUE
  /\ rawOutputFile = FALSE
  /\ finalOutputFile = FALSE

LogEntry(out) ==
  [speaker |-> CurrentPair[1], text |-> CurrentPair[2],
   path |-> CurrentPath, cachedBefore |-> cachedAtStart,
   posts |-> postsNow, out |-> out]

\* Where the call is after a stage has thrown: out of the function, past
\* the finally block (2139-2142); and the same with a failed encode or mux
\* passed over.
PcAfterThrowAssemblyIgnored(stage) ==
  IF stage \in {"encode", "mux"} THEN "trim" ELSE "failed"

PcAfterThrow(stage) == "failed"

\* The exception of a failed stage: finally rmSync(tmpDir) (2139-2142).
Throw(stage) ==
  /\ jobPc' = PcAfterThrow(stage)
  /\ failure' = stage
  /\ tmpDir' = TmpDirAfterThrow

\* genAi33ProAudio is entered for the next message (2088, 382-387): on a
\* hit the cached file is copied to outPath and the call returns.
ResolveStart ==
  /\ jobPc = "resolve"
  /\ msgIdx < Len(msgs)
  /\ cachedAtStart' = ttsCache[CurrentPath]
  /\ postsNow' = 0
  /\ IF CacheHit(ttsCache[CurrentPath])
       THEN /\ outMp3' = ttsCache[CurrentPath]
            /\ resolved' = Append(resolved,
                 [LogEntry(ttsCache[CurrentPath]) EXCEPT
                    !.cachedBefore = ttsCache[CurrentPath], !.posts = 0])
            /\ jobPc' = "convert"
       ELSE /\ outMp3' = "absent"
            /\ resolved' = resolved
            /\ jobPc' = "post"
  /\ UNCHANGED <<msgs, msgIdx, ttsCache, synthCalls, failure, stagesRun,
                 tmpDir, rawOutputFile, finalOutputFile>>
  /\ UNCHANGED <<framesVars, trimVars, parseVars, buildVars, serverVars>>

\* axios.post answers 200 with a task id (403-407).
PostOk ==
  /\ jobPc = "post"
  /\ synthCalls' = [synthCalls EXCEPT ![CurrentPair] = @ + 1]
  /\ postsNow' = postsNow + 1
  /\ jobPc' = "poll_wait"
  /\ UNCHANGED <<msgs, msgIdx, ttsCache, cachedAtStart, outMp3, resolved,
                 failure, stagesRun, tmpDir, rawOutputFile, finalOutputFile>>
  /\ UNCHANGED <<framesVars, trimVars, parseVars, buildVars, serverVars>>

\* A synthesis error: the exception ends the job, finally rmSync(tmpDir)
\* (2139-2142).
SynthesisError ==
  /\ failure' = "synthesis"
  /\ IF PcAfterSynthesisError = "failed"
       THEN /\ jobPc' = "failed"
            /\ tmpDir' = TmpDirAfterThrow
            /\ UNCHANGED msgIdx
       ELSE /\ jobPc' = "resolve"
            /\ msgIdx' = msgIdx + 1
            /\ UNCHANGED tmpDir

\* axios.post is rejected or answers a status other than 200 (403-404).
PostFail ==
  /\ jobPc = "post"
  /\ synthCalls' = [synthCalls EXCEPT ![CurrentPair] = @ + 1]
  /\ postsNow' = postsNow + 1
  /\ SynthesisError
  /\ UNCHANGED <<msgs, ttsCache, cachedAtStart, outMp3, resolved, stagesRun,
                 rawOutputFile, finalOutputFile>>
  /\ UNCHANGED <<framesVars, trimVars, parseVars, buildVars, serverVars>>

\* await new Promise(r => setTimeout(r, 600)) (411).
PollSleep ==
  /\ jobPc = "poll_wait"
  /\ jobPc' = "poll_get"
  /\ UNCHANGED <<msgs, msgIdx, ttsCache, cachedAtStart, postsNow, outMp3,
                 synthCalls, resolved, failure, stagesRun, tmpDir,
                 rawOutputFile, finalOutputFile>>
  /\ UNCHANGED <<framesVars, trimVars, parseVars, buildVars, serverVars>>

\* axios.get(taskUrl) answers a status that is neither done nor error
\* (412-416): the loop goes round.
PollPending ==
  /\ jobPc = "poll_get"
  /\ jobPc' = "poll_wait"
  /\ UNCHANGED <<msgs, msgIdx, ttsCache, cachedAtStart, postsNow, outMp3,
                 synthCalls, resolved, failure, stagesRun, tmpDir,
                 rawOutputFile, finalOutputFile>>
  /\ UNCHANGED <<framesVars, trimVars, parseVars, buildVars, serverVars>>

\* status 'done' (414).
PollDone ==
  /\ jobPc = "poll_get"
  /\ jobPc' = "download"
  /\ UNCHANGED <<msgs, msgIdx, ttsCache, cachedAtStart, postsNow, outMp3,
                 synthCalls, resolved, failure, stagesRun, tmpDir,
                 rawOutputFile, finalOutputFile>>
  /\ UNCHANGED <<framesVars, trimVars, parseVars, buildVars, serverVars>>

\* status 'error' (415), or axios.get(taskUrl) is rejected (412).
PollError ==
  /\ jobPc = "poll_get"
  /\ SynthesisError
  /\ UNCHANGED <<msgs, ttsCache, cachedAtStart, postsNow, outMp3, synthCalls,
                 resolved, stagesRun, rawOutputFile, finalOutputFile>>
  /\ UNCHANGED <<framesVars, trimVars, parseVars, buildVars, serverVars>>

\* The audio is downloaded and written to outPath and to the cache file
\* (418-422).
DownloadOk ==
  /\ jobPc = "download"
  /\ \E buf \in AudioChoices :
       /\ outMp3' = buf
       /\ ttsCache' = [ttsCache EXCEPT ![CurrentPath] = buf]
       /\ resolved' = Append(resolved, LogEntry(buf))
  /\ jobPc' = "convert"
  /\ UNCHANGED <<msgs, msgIdx, cachedAtStart, postsNow, synthCalls, failure,
                 stagesRun, tmpDir, rawOutputFile, finalOutputFile>>
  /\ UNCHANGED <<framesVars, trimVars, parseVars, buildVars, serverVars>>

\* axios.get(audioUrl) is rejected (418).
DownloadFail ==
  /\ jobPc = "download"
  /\ SynthesisError
  /\ UNCHANGED <<msgs, ttsCache, cachedAtStart, postsNow, outMp3, synthCalls,
                 resolved, stagesRun, rawOutputFile, finalOutputFile>>
  /\ UNCHANGED <<framesVars, trimVars, parseVars, buildVars, serverVars>>

\* convertToWav (2106, 445-452) exits 0, which ffmpeg does not do on an
\* empty input; the scene is recorded and the loop goes to the next message.
ConvertOk ==
  /\ jobPc = "convert"
  /\ outMp3 # "empty"
  /\ msgIdx' = msgIdx + 1
  /\ jobPc' = "resolve"
  /\ UNCHANGED <<msgs, ttsCache, cachedAtStart, postsNow, outMp3, synthCalls,
                 resolved, failure, stagesRun, tmpDir, rawOutputFile,
                 finalOutputFile>>
  /\ UNCHANGED <<framesVars, trimVars, parseVars, buildVars, serverVars>>

\* convertToWav throws 'WAV conversion failed' (450).
ConvertFail ==
  /\ jobPc = "convert"
  /\ Throw("convert")
  /\ UNCHANGED <<msgs, msgIdx, ttsCache, cachedAtStart, postsNow, outMp3,
                 synthCalls, resolved, stagesRun, rawOutputFile,
                 finalOutputFile>>
  /\ UNCHANGED <<framesVars, trimVars, parseVars, buildVars, serverVars>>

\* All messages resolved: concatWavFiles (2130-2131).
ConcatOk ==
  /\ jobPc = "resolve"
  /\ msgIdx = Len(msgs)
  /\ stagesRun' = stagesRun \cup {"concat"}
  /\ jobPc' = "encode"
  /\ UNCHANGED <<msgs, msgIdx, ttsCache, cachedAtStart, postsNow, outMp3,
                 synthCalls, resolved, failure, tmpDir, rawOutputFile,
                 finalOutputFile>>
  /\ UNCHANGED <<framesVars, trimVars, parseVars, buildVars, serverVars>>

\* concatWavFiles throws 'FFmpeg concat failed' (474).
ConcatFail ==
  /\ jobPc = "resolve"
  /\ msgIdx = Len(msgs)
  /\ stagesRun' = stagesRun \cup {"concat"}
  /\ Throw("concat")
  /\ UNCHANGED <<msgs, msgIdx, ttsCache, cachedAtStart, postsNow, outMp3,
                 synthCalls, resolved, rawOutputFile, finalOutputFile>>
  /\ UNCHANGED <<framesVars, trimVars, parseVars, buildVars, serverVars>>

\* writeVideoWithFfmpeg returns (2133-2134).
JobEncodeOk ==
  /\ jobPc = "encode"
  /\ stagesRun' = stagesRun \cup {"encode"}
  /\ jobPc' = "mux"
  /\ UNCHANGED <<msgs, msgIdx, ttsCache, cachedAtStart, postsNow, outMp3,
                 synthCalls, resolved, failure, tmpDir, rawOutputFile,
                 finalOutputFile>>
  /\ UNCHANGED <<framesVars, trimVars, parseVars, buildVars, serverVars>>

\* writeVideoWithFfmpeg throws 'ffmpeg encode failed' (1785).
JobEncodeFail ==
  /\ jobPc = "encode"
  /\ stagesRun' = stagesRun \cup {"encode"}
  /\ Throw("encode")
  /\ UNCHANGED <<msgs, msgIdx, ttsCache, cachedAtStart, postsNow, outMp3,
                 synthCalls, resolved, rawOutputFile, finalOutputFile>>
  /\ UNCHANGED <<framesVars, trimVars, parseVars, buildVars, serverVars>>

\* muxVideoAudio resolves: the raw file exists; finally rmSync(tmpDir)
\* (2136-2142).
MuxOk ==
  /\ jobPc = "mux"
  /\ stagesRun' = stagesRun \cup {"mux"}
  /\ rawOutputFile' = TRUE
  /\ tmpDir' = FALSE
  /\ jobPc' = "trim"
  /\ UNCHANGED <<msgs, msgIdx, ttsCache, cachedAtStart, postsNow, outMp3,
                 synthCalls, resolved, failure, finalOutputFile>>
  /\ UNCHANGED <<framesVars, trimVars, parseVars, buildVars, serverVars>>

\* muxVideoAudio rejects with 'mux failed' (1806).
MuxFail ==
  /\ jobPc = "mux"
  /\ stagesRun' = stagesRun \cup {"mux"}
  /\ Throw("mux")
  /\ UNCHANGED <<msgs, msgIdx, ttsCache, cachedAtStart, postsNow, outMp3,
                 synthCalls, resolved, rawOutputFile, finalOutputFile>>
  /\ UNCHANGED <<framesVars, trimVars, parseVars, buildVars, serverVars>>

\* removeSilenceFromVideo returns the final file; the raw file is unlinked
\* (2144-2151).
JobTrim ==
  /\ jobPc = "trim"
  /\ stagesRun' = stagesRun \cup {"trim"}
  /\ finalOutputFile' = TRUE
  /\ rawOutputFile' = FALSE
  /\ jobPc' = "done"
  /\ UNCHANGED <<msgs, msgIdx, ttsCache, cachedAtStart, postsNow, outMp3,
                 synthCalls, resolved, failure, tmpDir>>
  /\ UNCHANGED <<framesVars, trimVars, parseVars, buildVars, serverVars>>

NextJob ==
  \/ ResolveStart
  \/ PostOk
  \/ PostFail
  \/ PollSleep
  \/ PollPending
  \/ PollDone
  \/ PollError
  \/ DownloadOk
  \/ DownloadFail
  \/ ConvertOk
  \/ ConvertFail
  \/ ConcatOk
  \/ ConcatFail
  \/ JobEncodeOk
  \/ JobEncodeFail
  \/ MuxOk
  \/ MuxFail
  \/ JobTrim

SpecJob == InitJob /\ [][NextJob]_vars

\* The event loop runs every step the job can take; what the collaborator
\* answers is not subject to fairness.
SpecJobFair == SpecJob /\ WF_vars(NextJob)

\* ------------------------------------------------------------------------
\* Properties of the speech cache and of the job
\* ------------------------------------------------------------------------

\* C4: cache determinism. Every finished resolution that found a non-empty
\* cache file made no POST and delivered the cached audio; over the job the
\* collaborator is called at most once per (speaker, text) pair; the
\* resolutions of one pair use one cache path.
C4_CacheDeterminism ==
  /\ \A i \in 1..Len(resolved) :
       resolved[i].cachedBefore \notin {"absent", "empty"} =>
         /\ resolved[i].posts = 0
         /\ resolved[i].out = resolved[i].cachedBefore
  /\ \A p \in PairChoices : synthCalls[p] <= 1
  /\ \A i, j \in 1..Len(resolved) :
       (resolved[i].speaker = resolved[j].speaker
          /\ resolved[i].text = resolved[j].text) =>
         resolved[i].path = resolved[j].path

\* C4 witness: a pair was resolved twice, first by synthesis into an absent
\* cache file, then from the cache.
C4_Witness ==
  \E i, j \in 1..Len(resolved) :
    /\ i < j
    /\ resolved[i].speaker = resolved[j].speaker
    /\ resolved[i].text = resolved[j].text
    /\ resolved[i].cachedBefore = "absent"
    /\ resolved[i].posts = 1
    /\ resolved[j].posts = 0
    /\ resolved[j].out = resolved[i].out

\* C5: a synthesis failure aborts the job. In the failed state no message
\* after the failing one has been resolved, no assembly or trimming stage has
\* run, no raw or final video file exists, and the cache file of the failed
\* key holds what it held before the failing resolution (nothing non-empty).
C5_SynthesisFailureAborts ==
  failure = "synthesis" =>
    /\ jobPc = "failed"
    /\ ~tmpDir
    /\ msgIdx < Len(msgs)
    /\ Len(resolved) <= msgIdx
    /\ stagesRun = {}
    /\ ~rawOutputFile /\ ~finalOutputFile
    /\ ttsCache[CurrentPath] = cachedAtStart
    /\ ~CacheHit(ttsCache[CurrentPath])

\* C5 witness: the second of three messages failed in synthesis, after the
\* first was resolved, with an empty cache file at the failed key.
C5_Witness ==
  /\ failure = "synthesis"
  /\ Len(msgs) = 3
  /\ msgIdx = 1
  /\ cachedAtStart = "empty"
  /\ postsNow = 1

\* C6: the task-polling loop always terminates: a resolution that has
\* started polling eventually leaves the loop, by success or by an error.
C6_PollingTerminates ==
  (jobPc = "poll_wait") ~> (jobPc \notin {"poll_wait", "poll_get"})

\* ========================================================================
\* parseFileSettingsAndThreads (src/worker.js 502-677) and its text helpers.
\* A line is a sequence of tokens; a token stands for its characters: a
\* keyword, a word, a number, or one punctuation character or blank.
\* ========================================================================

\* String.prototype.toLowerCase on a token.
Lower(t) ==
  CASE t = "None" -> "none"
    [] t = "Plug" -> "plug"
    [] t = "iMessage" -> "imessage"
    [] t = "UM" -> "um"
    [] t = "CR" -> "cr"
    [] OTHER -> t

\* Tokens made of decimal digits, and parseInt / parseFloat of each.
NumTokens == {"2", "7", "20"}
NumVal(t) == CASE t = "2" -> 2 [] t = "7" -> 7 [] t = "20" -> 20

\* The decimal digits of a number, as a template literal prints it.
NumStr(n) == CHOOSE t \in NumTokens : NumVal(t) = n

MinOf(S) == CHOOSE x \in S : \A y \in S : x <= y

\* 1-based String.prototype.indexOf(t, from): 0 when t does not occur.
IndexOf(l, t, from) ==
  LET S == {j \in from..Len(l) : l[j] = t}
  IN IF S = {} THEN 0 ELSE MinOf(S)

\* The first position at or after i that holds no blank (Len(l) + 1 if none).
RECURSIVE SkipWs(_, _)
SkipWs(l, i) == IF i <= Len(l) /\ l[i] = " " THEN SkipWs(l, i + 1) ELSE i

\* String.prototype.trim.
RECURSIVE TrimLeft(_)
TrimLeft(l) == IF l # <<>> /\ Head(l) = " " THEN TrimLeft(Tail(l)) ELSE l

RECURSIVE TrimRight(_)
TrimRight(l) ==
  IF l # <<>> /\ l[Len(l)] = " " THEN TrimRight(SubSeq(l, 1, Len(l) - 1)) ELSE l

Trim(l) == TrimRight(TrimLeft(l))

\* No split at all, for comparison with parseTtsOverride.
parseTtsOverrideNever(text) == <<text, text>>

\* parseTtsOverride (312-318): split at the first ' == '.
parseTtsOverride(text) ==
  LET S == {j \in 1..(Len(text) - 3) :
              text[j] = " " /\ text[j + 1] = "=" /\ text[j + 2] = "="
                /\ text[j + 3] = " "}
  IN IF S # {}
       THEN <<Trim(SubSeq(text, 1, MinOf(S) - 1)),
              Trim(SubSeq(text, MinOf(S) + 4, Len(text)))>>
       ELSE <<text, text>>

\* stripBlurMarkers (320-322): text.replace(/\{([^}]*)\}/g, '$1').
RECURSIVE stripBlurMarkers(_)
stripBlurMarkers(text) ==
  IF text = <<>> THEN <<>>
  ELSE IF Head(text) = "{" /\ IndexOf(text, "}", 2) # 0
    THEN LET c == IndexOf(text, "}", 2)
         IN SubSeq(text, 2, c - 1) \o stripBlurMarkers(SubSeq(text, c + 1, Len(text)))
    ELSE <<Head(text)>> \o stripBlurMarkers(Tail(text))

\* parseTextWithSfx (481-489): the match of /\s*\[([^\]]+)\]\s*$/ is the
\* leftmost '[' that is followed, with at least one character between and no
\* ']' between, by the ']' that ends the text.  The result is
\* <<cleanText, sfx>>, sfx <<>> for null and <<name>> otherwise.
parseTextWithSfx(text) ==
  LET t == TrimRight(text)
      r == Len(t)
      closers == {j \in 1..(r - 1) : t[j] = "]"}
      q == IF closers = {} THEN 0
           ELSE CHOOSE x \in closers : \A y \in closers : y <= x
      opens == {j \in (q + 1)..(r - 2) : t[j] = "["}
  IN IF r >= 1 /\ t[r] = "]" /\ opens # {}
       THEN <<Trim(SubSeq(t, 1, MinOf(opens) - 1)),
              <<Trim(SubSeq(t, MinOf(opens) + 1, r - 1))>>>>
       ELSE <<Trim(text), <<>>>>

\* patBreak (522): /^<break\s*:\s*(\d+(?:\.\d+)?)\s*s\s*:?>$/i.  The match
\* is <<>> when the line does not match, else <<the number token>>.
MatchBreak(l) ==
  IF Len(l) >= 1 /\ Lower(l[1]) = "<break"
    THEN LET a == SkipWs(l, 2)
             b == SkipWs(l, a + 1)
             c == SkipWs(l, b + 1)
             d == SkipWs(l, c + 1)
             e == IF d <= Len(l) /\ l[d] = ":" THEN d + 1 ELSE d
         IN IF /\ a <= Len(l) /\ l[a] = ":"
               /\ b <= Len(l) /\ l[b] \in NumTokens
               /\ c <= Len(l) /\ l[c] = "s"
               /\ e = Len(l) /\ l[e] = ">"
              THEN <<l[b]>>
              ELSE <<>>
    ELSE <<>>

\* patPlugsay, patPlug, patRizzsay, patRizz (518-521):
\* /^<kw>\s*>\s*([^:]+)\s*:\s*(.+)$/i.  The match is <<>> or
\* <<[g1, g2]>>, the groups as captured up to surrounding blanks, which
\* every use trims.
MatchKeyword(l, kw) ==
  IF Len(l) >= 1 /\ Lower(l[1]) = kw
    THEN LET a == SkipWs(l, 2)
             c == IndexOf(l, ":", a + 1)
         IN IF /\ a <= Len(l) /\ l[a] = ">"
               /\ c > a + 1
               /\ c < Len(l)
              THEN <<[g1 |-> SubSeq(l, a + 1, c - 1),
                      g2 |-> SubSeq(l, c + 1, Len(l))]>>
              ELSE <<>>
    ELSE <<>>

\* The first position at or after i that holds neither ':' nor a blank.
RECURSIVE SkipColonWs(_, _)
SkipColonWs(l, i) ==
  IF i <= Len(l) /\ l[i] \in {":", " "} THEN SkipColonWs(l, i + 1) ELSE i

\* patThread (515): /^iMessage[:\s]+([^:]+)(?:\s*:\s*(.+))?$/i.  The match
\* is <<>> or <<[g1, g2]>>, g2 = <<>> when the optional group is absent and
\* <<text>> otherwise.
MatchThread(l) ==
  IF Len(l) >= 2 /\ Lower(l[1]) = "imessage" /\ l[2] \in {":", " "}
    THEN LET a == SkipColonWs(l, 2)
             c == IndexOf(l, ":", a)
         IN IF a > Len(l) THEN <<>>
            ELSE IF c = 0
              THEN <<[g1 |-> SubSeq(l, a, Len(l)), g2 |-> <<>>]>>
            ELSE IF c < Len(l)
              THEN <<[g1 |-> SubSeq(l, a, c - 1),
                      g2 |-> <<TrimLeft(SubSeq(l, c + 1, Len(l)))>>]>>
            ELSE <<>>
    ELSE <<>>

\* patUm, patCr (516-517): /^UM[:\s]+(\d+)$/i and /^CR[:\s]+(\d+)$/i.
MatchDirective(l, kw) ==
  IF Len(l) >= 3 /\ Lower(l[1]) = kw /\ l[2] \in {":", " "}
    THEN LET a == SkipColonWs(l, 2)
         IN IF a = Len(l) /\ l[a] \in NumTokens THEN <<l[a]>> ELSE <<>>
    ELSE <<>>

\* Line 538: /^rizz_say:/i.test(line) || /^rizz:/i.test(line).
MatchLegacyRizz(l) ==
  Len(l) >= 2 /\ Lower(l[1]) \in {"rizz_say", "rizz"} /\ l[2] = ":"

Includes(l, t) == IndexOf(l, t, 1) # 0

LowerSeq(l) == [i \in DOMAIN l |-> Lower(l[i])]

\* Math.round(parseInt(n) * 1.5) (530).
CornerRadius(n) == (3 * n + 1) \div 2

\* The first loop (526-532): UM and CR lines set a setting and are dropped.
RECURSIVE FilterPass(_, _)
FilterPass(ls, acc) ==
  IF ls = <<>> THEN acc
  ELSE LET line == Head(ls)
           mUm == MatchDirective(line, "um")
           mCr == MatchDirective(line, "cr")
       IN FilterPass(Tail(ls),
            IF mUm # <<>> THEN [acc EXCEPT !.unreadCount = mUm]
            ELSE IF mCr # <<>>
              THEN [acc EXCEPT !.uiCornerRadius = CornerRadius(NumVal(mCr[1]))]
            ELSE [acc EXCEPT !.filteredLines = Append(@, line)])

\* The branch of the second loop's body (538-669) that a line takes.
LineClassThreadLate(line) ==
  IF MatchLegacyRizz(line) THEN "skipped"
  ELSE IF MatchBreak(line) # <<>> THEN "break"
  ELSE IF MatchKeyword(line, "plugsay") # <<>> THEN "plugsay"
  ELSE IF MatchKeyword(line, "plug") # <<>> THEN "plug"
  ELSE IF MatchKeyword(line, "rizzsay") # <<>> THEN "rizzsay"
  ELSE IF MatchKeyword(line, "rizz") # <<>> THEN "rizz"
  ELSE IF Includes(line, ">") /\ Includes(line, ":") THEN "twopart"
  ELSE IF MatchThread(line) # <<>> THEN "thread"
  ELSE IF Includes(line, ":") THEN "single"
  ELSE "none"

LineClassNoneAsMessage(line) ==
  IF MatchLegacyRizz(line) THEN "skipped"
  ELSE IF MatchBreak(line) # <<>> THEN "break"
  ELSE IF MatchKeyword(line, "plugsay") # <<>> THEN "plugsay"
  ELSE IF MatchKeyword(line, "plug") # <<>> THEN "plug"
  ELSE IF MatchKeyword(line, "rizzsay") # <<>> THEN "rizzsay"
  ELSE IF MatchKeyword(line, "rizz") # <<>> THEN "rizz"
  ELSE IF MatchThread(line) # <<>> THEN "thread"
  ELSE IF Includes(line, ">") /\ Includes(line, ":") THEN "twopart"
  ELSE "single"

LineClass(line) ==
  IF MatchLegacyRizz(line) THEN "skipped"
  ELSE IF MatchBreak(line) # <<>> THEN "break"
  ELSE IF MatchKeyword(line, "plugsay") # <<>> THEN "plugsay"
  ELSE IF MatchKeyword(line, "plug") # <<>> THEN "plug"
  ELSE IF MatchKeyword(line, "rizzsay") # <<>> THEN "rizzsay"
  ELSE IF MatchKeyword(line, "rizz") # <<>> THEN "rizz"
  ELSE IF MatchThread(line) # <<>> THEN "thread"
  ELSE IF Includes(line, ">") /\ Includes(line, ":") THEN "twopart"
  ELSE IF Includes(line, ":") THEN "single"
  ELSE "none"

\* The break message (545-550).
BreakMsg(line) ==
  [sender |-> <<"__break__">>, speaker |-> <<"__break__">>,
   text |-> <<>>, tts_text |-> <<>>, sfx |-> <<>>,
   audio_only |-> FALSE, is_plug |-> FALSE,
   is_break |-> TRUE, duration_s |-> NumVal(MatchBreak(line)[1])]

\* The pending intro of a plugsay or rizzsay line (559-566, 595-602).
IntroOf(m) ==
  LET rawSpeaker == Trim(m.g1)
      sfxPair == parseTextWithSfx(Trim(m.g2))
      ttsPair == parseTtsOverride(sfxPair[1])
  IN [speaker |-> rawSpeaker, text |-> ttsPair[1],
      tts_text |-> stripBlurMarkers(ttsPair[2]), sfx |-> sfxPair[2],
      silent |-> LowerSeq(rawSpeaker) = <<"none">>]

\* The plug message (576-586).
PlugMsg(m, pending) ==
  LET plugSpeaker == Trim(m.g1)
      ttsPair == parseTtsOverride(Trim(m.g2))
  IN [sender |-> <<"plug">>, speaker |-> plugSpeaker,
      text |-> ttsPair[1], tts_text |-> stripBlurMarkers(ttsPair[2]),
      sfx |-> <<>>, audio_only |-> FALSE, is_plug |-> TRUE,
      plug_silent |-> LowerSeq(plugSpeaker) = <<"none">>,
      plugsay_speaker |-> IF pending # <<>> THEN pending[1].speaker ELSE plugSpeaker,
      plugsay_text |-> IF pending # <<>> THEN pending[1].text ELSE <<>>,
      plugsay_tts_text |-> IF pending # <<>> THEN pending[1].tts_text ELSE <<>>,
      plugsay_sfx |-> IF pending # <<>> THEN pending[1].sfx ELSE <<>>,
      plugsay_silent |-> IF pending # <<>> THEN pending[1].silent ELSE FALSE]

\* The rizz message (612-622).
RizzMsg(m, pending) ==
  LET rizzSpeaker == Trim(m.g1)
      ttsPair == parseTtsOverride(Trim(m.g2))
  IN [sender |-> <<"rizz">>, speaker |-> rizzSpeaker,
      text |-> ttsPair[1], tts_text |-> stripBlurMarkers(ttsPair[2]),
      sfx |-> <<>>, audio_only |-> FALSE, is_plug |-> FALSE, is_rizz |-> TRUE,
      rizz_silent |-> LowerSeq(rizzSpeaker) = <<"none">>,
      rizzsay_speaker |-> IF pending # <<>> THEN pending[1].speaker ELSE rizzSpeaker,
      rizzsay_text |-> IF pending # <<>> THEN pending[1].text ELSE <<>>,
      rizzsay_tts_text |-> IF pending # <<>> THEN pending[1].tts_text ELSE <<>>,
      rizzsay_sfx |-> IF pending # <<>> THEN pending[1].sfx ELSE <<>>,
      rizzsay_silent |-> IF pending # <<>> THEN pending[1].silent ELSE FALSE]

\* The two-part message (644-657).  When every ':' precedes the first '>',
\* indexOf gives -1: the sender side is slice(gtIdx + 1, -1), which drops
\* the last character (here the last token), and the text is the whole line.
TwoPartMsg(line) ==
  LET gtIdx == IndexOf(line, ">", 1)
      colIdx == IndexOf(line, ":", gtIdx)
      speakerSide == SubSeq(line, 1, gtIdx - 1)
      senderSide == IF colIdx # 0 THEN SubSeq(line, gtIdx + 1, colIdx - 1)
                    ELSE SubSeq(line, gtIdx + 1, Len(line) - 1)
      textRaw == IF colIdx # 0 THEN SubSeq(line, colIdx + 1, Len(line)) ELSE line
      senderStripped == Trim(senderSide)
      sfxPair == parseTextWithSfx(textRaw)
      ttsPair == parseTtsOverride(sfxPair[1])
  IN [sender |-> senderStripped, speaker |-> Trim(speakerSide),
      text |-> ttsPair[1], tts_text |-> stripBlurMarkers(ttsPair[2]),
      sfx |-> sfxPair[2],
      audio_only |-> LowerSeq(senderStripped) = <<"audio">>,
      is_plug |-> FALSE]

\* The single-part message (659-668).
SinglePartMsg(line) ==
  LET colIdx == IndexOf(line, ":", 1)
      sender == Trim(SubSeq(line, 1, colIdx - 1))
      textRaw == SubSeq(line, colIdx + 1, Len(line))
      sfxPair == parseTextWithSfx(textRaw)
      ttsPair == parseTtsOverride(sfxPair[1])
  IN [sender |-> sender, speaker |-> sender,
      text |-> ttsPair[1], tts_text |-> stripBlurMarkers(ttsPair[2]),
      sfx |-> sfxPair[2], audio_only |-> FALSE, is_plug |-> FALSE]

PushThreadEvenEmpty ==
  IF currentContact # <<>> /\ currentContact[1] # <<>>
    THEN Append(threads, [contact |-> currentContact[1],
                          messages |-> currentMsgs,
                          avatar |-> contactAvatar])
    ELSE threads

\* threads after the push of 631-633 and 672-674 (a truthy contact with
\* at least one message).
PushThread ==
  IF currentContact # <<>> /\ currentContact[1] # <<>> /\ currentMsgs # <<>>
    THEN Append(threads, [contact |-> currentContact[1],
                          messages |-> currentMsgs,
                          avatar |-> contactAvatar])
    ELSE threads

\* Script lines, as readFileSync(...).split('\n').map(trim).filter(Boolean)
\* leaves them (503-506).
LineChoices ==
  { <<"iMessage", ":", " ", "Bob">>,
    <<"iMessage", " ", "Al", " ", ">", " ", "x", ":", " ", "al.png">>,
    <<"Bob", " ", ">", " ", "audio", ":", " ", "hi", " ", "[", "knock", "]">>,
    <<"me", ":", " ", "{", "hi", "}", " ", "=", "=", " ", "yo">>,
    <<"<break", ":", "2", "s", ">">>,
    <<"plugsay", " ", ">", " ", "Bob", ":", " ", "hi", " ", "[", "knock", "]">>,
    <<"Plug", " ", ">", " ", "None", ":", " ", "yo">>,
    <<"rizzsay", ">", "none", ":", "hi">>,
    <<"rizz", " ", ">", " ", "Bob", ":", " ", "yo", " ", "[", "knock", "]">>,
    <<"rizz", ":", " ", "hi">>,
    <<"hello">>,
    <<"UM", ":", " ", "7">>,
    <<"CR", " ", "20">> }

\* Scripts of thread headers, messages, breaks, intros, replies and one
\* line that matches nothing.
ThreadLineChoices ==
  { <<"iMessage", ":", " ", "Bob">>,
    <<"iMessage", " ", "Al", " ", ">", " ", "x", ":", " ", "al.png">>,
    <<"Bob", " ", ">", " ", "audio", ":", " ", "hi", " ", "[", "knock", "]">>,
    <<"<break", ":", "2", "s", ">">>,
    <<"plugsay", " ", ">", " ", "Bob", ":", " ", "hi", " ", "[", "knock", "]">>,
    <<"Plug", " ", ">", " ", "None", ":", " ", "yo">>,
    <<"rizzsay", ">", "none", ":", "hi">>,
    <<"rizz", " ", ">", " ", "Bob", ":", " ", "yo", " ", "[", "knock", "]">>,
    <<"hello">> }

\* The state at line 535 before the first loop, for a script of `scripts`.
InitParseFrom(scripts) ==
  /\ BuildIdle
  /\ ServerIdle
  /\ FramesIdle
  /\ TrimIdle
  /\ JobIdle
  /\ parsePc = "pass1"
  /\ lines \in scripts
  /\ filteredLines = <<>>
  /\ lineIdx = 0
  /\ unreadCount = <<"999999+">>
  /\ uiCornerRadius = 50
  /\ threads = <<>>
  /\ currentContact = <<>>
  /\ currentMsgs = <<>>
  /\ contactAvatar = <<>>
  /\ pendingPlugsay = <<>>
  /\ pendingRizzsay = <<>>
  /\ handledAs = <<>>
  /\ parseCalls = 1
  /\ firstResult = <<>>

InitParse == InitParseFrom(SeqsUpTo(LineChoices, MaxLines))

InitThreads == InitParseFrom(SeqsUpTo(ThreadLineChoices, MaxThreadLines))

\* A pending intro after a thread header (637-638).
PendingAfterHeaderKept(pending) == pending

PendingAfterHeader(pending) == <<>>

\* A pending intro after a reply line of its kind (588, 624), and one that
\* stays for the next reply.
PendingAfterReplyKept(pending) == pending

PendingAfterReply(pending) == <<>>

\* A pending intro after an intro line of its kind (562-566, 598-602): the
\* new intro; and one that keeps an intro already pending.
PendingAfterIntroFirstKept(pending, intro) ==
  IF pending # <<>> THEN pending ELSE <<intro>>

PendingAfterIntro(pending, intro) == <<intro>>

\* currentMsgs after a thread header (636), and the same list kept.
MsgsAfterHeaderKept(ms) == ms

MsgsAfterHeader(ms) == <<>>

\* The first loop (526-532).
FilterDirectives ==
  /\ parsePc = "pass1"
  /\ LET r == FilterPass(lines, [unreadCount |-> unreadCount,
                                 uiCornerRadius |-> uiCornerRadius,
                                 filteredLines |-> <<>>])
     IN /\ unreadCount' = r.unreadCount
        /\ uiCornerRadius' = r.uiCornerRadius
        /\ filteredLines' = r.filteredLines
  /\ parsePc' = "pass2"
  /\ UNCHANGED <<lines, lineIdx, threads, currentContact, currentMsgs,
                 contactAvatar, pendingPlugsay, pendingRizzsay, handledAs>>
  /\ UNCHANGED <<parseCalls, firstResult>>
  /\ UNCHANGED <<framesVars, trimVars, jobVars, buildVars, serverVars>>

\* One iteration of the second loop (537-670).
ParseLine ==
  /\ parsePc = "pass2"
  /\ lineIdx < Len(filteredLines)
  /\ LET line == filteredLines[lineIdx + 1]
         class == LineClass(line)
         open == currentContact # <<>>
         pushed == \/ class \in {"break", "plug", "rizz"} /\ open
                   \/ class \in {"twopart", "single"}
     IN /\ handledAs' = Append(handledAs, [branch |-> class,
                                           pushed |-> IF pushed THEN 1 ELSE 0])
        /\ currentMsgs' =
             CASE class = "break" /\ open -> Append(currentMsgs, BreakMsg(line))
               [] class = "plug" /\ open ->
                    Append(currentMsgs,
                           PlugMsg(MatchKeyword(line, "plug")[1], pendingPlugsay))
               [] class = "rizz" /\ open ->
                    Append(currentMsgs,
                           RizzMsg(MatchKeyword(line, "rizz")[1], pendingRizzsay))
               [] class = "thread" -> MsgsAfterHeader(currentMsgs)
               [] class = "twopart" -> Append(currentMsgs, TwoPartMsg(line))
               [] class = "single" -> Append(currentMsgs, SinglePartMsg(line))
               [] OTHER -> currentMsgs
        /\ pendingPlugsay' =
             CASE class = "plugsay" ->
                    PendingAfterIntro(pendingPlugsay,
                                      IntroOf(MatchKeyword(line, "plugsay")[1]))
               [] class = "plug" -> PendingAfterReply(pendingPlugsay)
               [] class = "thread" -> PendingAfterHeader(pendingPlugsay)
               [] OTHER -> pendingPlugsay
        /\ pendingRizzsay' =
             CASE class = "rizzsay" ->
                    PendingAfterIntro(pendingRizzsay,
                                      IntroOf(MatchKeyword(line, "rizzsay")[1]))
               [] class = "rizz" -> PendingAfterReply(pendingRizzsay)
               [] class = "thread" -> PendingAfterHeader(pendingRizzsay)
               [] OTHER -> pendingRizzsay
        /\ threads' = IF class = "thread" THEN PushThread ELSE threads
        /\ currentContact' =
             IF class = "thread" THEN <<Trim(MatchThread(line)[1].g1)>>
             ELSE currentContact
        /\ contactAvatar' =
             IF class = "thread"
               THEN (IF MatchThread(line)[1].g2 # <<>>
                       /\ MatchThread(line)[1].g2[1] # <<>>
                       THEN <<Trim(MatchThread(line)[1].g2[1])>>
                       ELSE <<>>)
               ELSE contactAvatar
  /\ lineIdx' = lineIdx + 1
  /\ UNCHANGED <<parsePc, lines, filteredLines, unreadCount, uiCornerRadius>>
  /\ UNCHANGED <<parseCalls, firstResult>>
  /\ UNCHANGED <<framesVars, trimVars, jobVars, buildVars, serverVars>>

\* The push after the loop and the return (672-676).
FlushThread ==
  /\ parsePc = "pass2"
  /\ lineIdx = Len(filteredLines)
  /\ threads' = PushThread
  /\ parsePc' = "done"
  /\ UNCHANGED <<lines, filteredLines, lineIdx, unreadCount, uiCornerRadius,
                 currentContact, currentMsgs, contactAvatar, pendingPlugsay,
                 pendingRizzsay, handledAs>>
  /\ UNCHANGED <<parseCalls, firstResult>>
  /\ UNCHANGED <<framesVars, trimVars, jobVars, buildVars, serverVars>>

NextParse ==
  \/ FilterDirectives
  \/ ParseLine
  \/ FlushThread

SpecParse == InitParse /\ [][NextParse]_vars

SpecThreads == InitThreads /\ [][NextParse]_vars

\* ---- C10 ----

\* The classification the priority order of the parser's description gives:
\* the first of break marker, intro, reply, thread header, two-part message,
\* single-part message that the line matches.
PriorityClass(line) ==
  IF MatchBreak(line) # <<>> THEN "break"
  ELSE IF MatchKeyword(line, "plugsay") # <<>> THEN "plugsay"
  ELSE IF MatchKeyword(line, "rizzsay") # <<>> THEN "rizzsay"
  ELSE IF MatchKeyword(line, "plug") # <<>> THEN "plug"
  ELSE IF MatchKeyword(line, "rizz") # <<>> THEN "rizz"
  ELSE IF MatchThread(line) # <<>> THEN "thread"
  ELSE IF Includes(line, ">") /\ Includes(line, ":") THEN "twopart"
  ELSE IF Includes(line, ":") THEN "single"
  ELSE "none"

\* The number of patterns of the priority order that a line matches.
MatchCount(line) ==
  Cardinality({k \in {"break", "plugsay", "rizzsay", "plug", "rizz", "thread",
                      "twopart", "single"} :
     CASE k = "break" -> MatchBreak(line) # <<>>
       [] k = "thread" -> MatchThread(line) # <<>>
       [] k = "twopart" -> Includes(line, ">") /\ Includes(line, ":")
       [] k = "single" -> Includes(line, ":")
       [] OTHER -> MatchKeyword(line, k) # <<>>})

\* C10 (as stated): every line the second pass has consumed was handled as
\* the first pattern it matches in the priority order, and a line whose first
\* match is a message pattern pushed exactly one message.
C10_FirstMatchingPattern ==
  \A i \in 1..Len(handledAs) :
    /\ handledAs[i].branch = PriorityClass(filteredLines[i])
    /\ PriorityClass(filteredLines[i]) \in {"twopart", "single"}
         => handledAs[i].pushed = 1

\* C10 (amended): the same, except that a line beginning with 'rizz:' or
\* 'rizz_say:' is skipped before any pattern is tried and pushes nothing.
C10_FirstMatchingPatternAfterSkip ==
  \A i \in 1..Len(handledAs) :
    IF MatchLegacyRizz(filteredLines[i])
      THEN handledAs[i].branch = "skipped" /\ handledAs[i].pushed = 0
      ELSE /\ handledAs[i].branch = PriorityClass(filteredLines[i])
           /\ PriorityClass(filteredLines[i]) \in {"twopart", "single"}
                => handledAs[i].pushed = 1

\* A run in which a thread header that also matches the two-part pattern,
\* a two-part message, a single-part message and a skipped 'rizz:' line
\* have been consumed.
C10_Witness ==
  /\ parsePc = "done"
  /\ \E i \in 1..Len(handledAs) :
       handledAs[i].branch = "thread" /\ MatchCount(filteredLines[i]) >= 3
  /\ \E i \in 1..Len(handledAs) :
       handledAs[i].branch = "single" /\ handledAs[i].pushed = 1
  /\ \E i \in 1..Len(handledAs) : handledAs[i].branch = "skipped"

\* ---- C11 ----

\* Whether a line of the given branch pushes a message, given whether a
\* thread is open.
Emits(branch, open) ==
  \/ branch \in {"twopart", "single"}
  \/ branch \in {"break", "plug", "rizz"} /\ open

\* The sender each message-pushing line of ls gives its message, in line
\* order, for lines read while a thread is open or not.
RECURSIVE SendersOf(_, _)
SendersOf(ls, open) ==
  IF ls = <<>> THEN <<>>
  ELSE LET b == PriorityClass(Head(ls))
           rest == SendersOf(Tail(ls), open)
       IN IF MatchLegacyRizz(Head(ls)) \/ ~Emits(b, open) THEN rest
          ELSE CASE b = "break" -> <<<<"__break__">>>> \o rest
                 [] b = "plug" -> <<<<"plug">>>> \o rest
                 [] b = "rizz" -> <<<<"rizz">>>> \o rest
                 [] b = "twopart" -> <<TwoPartMsg(Head(ls)).sender>> \o rest
                 [] b = "single" -> <<SinglePartMsg(Head(ls)).sender>> \o rest

IsHeader(line) == ~MatchLegacyRizz(line) /\ PriorityClass(line) = "thread"

\* The positions of the thread headers among the first n lines of ls.
HeadersIn(ls, n) == {i \in 1..n : IsHeader(ls[i])}

\* The lines of ls after the header at h and before the next header or n.
SegmentOf(ls, h, n) ==
  LET later == {j \in HeadersIn(ls, n) : j > h}
      last == IF later = {} THEN n ELSE MinOf(later) - 1
  IN SubSeq(ls, h + 1, last)

\* The headers among the first n lines whose thread is closed once those n
\* lines are read (all of them when the input has ended) and has a message.
RECURSIVE ExpectedThreads(_, _, _, _)
ExpectedThreads(ls, n, from, ended) ==
  LET hs == {h \in HeadersIn(ls, n) : h >= from}
  IN IF hs = {} THEN <<>>
     ELSE LET h == MinOf(hs)
              closed == ended \/ \E j \in hs : j > h
              senders == SendersOf(SegmentOf(ls, h, n), TRUE)
          IN (IF closed /\ senders # <<>>
                THEN <<[contact |-> Trim(MatchThread(ls[h])[1].g1),
                        senders |-> senders]>>
                ELSE <<>>)
             \o ExpectedThreads(ls, n, h + 1, ended)

ThreadShapes ==
  [i \in 1..Len(threads) |->
     [contact |-> threads[i].contact,
      senders |-> [k \in 1..Len(threads[i].messages) |->
                     threads[i].messages[k].sender]]]

\* C11: at every point of the second pass and at the return, the thread list
\* holds, in header order, exactly the closed threads that received a
\* message, each with its messages in line order and none empty; the open
\* thread is the one of the last header read, and it is flushed at the end.
C11_ThreadsInHeaderOrder ==
  parsePc \in {"pass2", "done"} =>
    /\ ThreadShapes = ExpectedThreads(filteredLines, lineIdx, 1, parsePc = "done")
    /\ \A i \in 1..Len(threads) : threads[i].messages # <<>>
    /\ LET hs == HeadersIn(filteredLines, lineIdx)
       IN IF hs = {} THEN currentContact = <<>>
          ELSE LET h == CHOOSE x \in hs : \A y \in hs : y <= x
               IN /\ currentContact = <<Trim(MatchThread(filteredLines[h])[1].g1)>>
                  /\ [k \in 1..Len(currentMsgs) |-> currentMsgs[k].sender]
                       = SendersOf(SegmentOf(filteredLines, h, lineIdx), TRUE)

\* A script whose first thread is flushed by the second header, whose second
\* thread is flushed at the end of the input, and which has a header whose
\* thread received no message.
C11_Witness ==
  /\ parsePc = "done"
  /\ Len(threads) = 2
  /\ threads[1].contact # threads[2].contact
  /\ Cardinality(HeadersIn(filteredLines, Len(filteredLines))) = 2
  /\ Len(filteredLines) = 4

C11_DroppedThreadWitness ==
  /\ parsePc = "done"
  /\ Cardinality(HeadersIn(filteredLines, Len(filteredLines))) > Len(threads)

\* ---- C12 ----

\* The branch of the loop body the description gives a line: skipped for a
\* line beginning with 'rizz:' or 'rizz_say:', else its first pattern.
Branch(line) == IF MatchLegacyRizz(line) THEN "skipped" ELSE PriorityClass(line)

\* The position among the first n lines of the intro line whose pending
\* state is still held: the last intro line of the kind with no reply line
\* of the kind and no thread header after it; 0 when there is none.
HeldIntro(ls, n, intro, reply) ==
  LET S == {j \in 1..n :
              /\ Branch(ls[j]) = intro
              /\ \A k \in (j + 1)..n : Branch(ls[k]) \notin {intro, reply, "thread"}}
  IN IF S = {} THEN 0 ELSE MinOf(S)

ExpectedPending(ls, n, intro, reply) ==
  IF HeldIntro(ls, n, intro, reply) = 0 THEN <<>>
  ELSE <<IntroOf(MatchKeyword(ls[HeldIntro(ls, n, intro, reply)], intro)[1])>>

\* C12: the pending plug and rizz intros are those of the last intro line
\* read since the last thread header (and the last reply); right after a
\* header both are null, and a reply message pushed carries the held intro
\* of its own thread or, when none is held, its own speaker with empty intro
\* text, speech text, effect and silent flag.
C12_PendingScopedToThread ==
  parsePc \in {"pass2", "done"} =>
    /\ pendingPlugsay = ExpectedPending(filteredLines, lineIdx, "plugsay", "plug")
    /\ pendingRizzsay = ExpectedPending(filteredLines, lineIdx, "rizzsay", "rizz")
    /\ (lineIdx > 0 /\ Branch(filteredLines[lineIdx]) = "thread")
         => pendingPlugsay = <<>> /\ pendingRizzsay = <<>>
    /\ (lineIdx > 0 /\ handledAs[lineIdx].pushed = 1
          /\ Branch(filteredLines[lineIdx]) = "plug")
         => LET m == currentMsgs[Len(currentMsgs)]
                held == ExpectedPending(filteredLines, lineIdx - 1, "plugsay", "plug")
            IN <<m.plugsay_speaker, m.plugsay_text, m.plugsay_tts_text,
                 m.plugsay_sfx, m.plugsay_silent>>
                 = IF held = <<>> THEN <<m.speaker, <<>>, <<>>, <<>>, FALSE>>
                   ELSE <<held[1].speaker, held[1].text, held[1].tts_text,
                          held[1].sfx, held[1].silent>>
    /\ (lineIdx > 0 /\ handledAs[lineIdx].pushed = 1
          /\ Branch(filteredLines[lineIdx]) = "rizz")
         => LET m == currentMsgs[Len(currentMsgs)]
                held == ExpectedPending(filteredLines, lineIdx - 1, "rizzsay", "rizz")
            IN <<m.rizzsay_speaker, m.rizzsay_text, m.rizzsay_tts_text,
                 m.rizzsay_sfx, m.rizzsay_silent>>
                 = IF held = <<>> THEN <<m.speaker, <<>>, <<>>, <<>>, FALSE>>
                   ELSE <<held[1].speaker, held[1].text, held[1].tts_text,
                          held[1].sfx, held[1].silent>>

\* An intro line, then a thread header, then a reply line in the new thread:
\* the reply carries no intro.
C12_Witness ==
  /\ lineIdx = 4
  /\ [i \in 1..4 |-> handledAs[i].branch] = <<"thread", "plugsay", "thread", "plug">>
  /\ handledAs[4].pushed = 1
  /\ currentMsgs[Len(currentMsgs)].plugsay_text = <<>>
  /\ currentMsgs[Len(currentMsgs)].plugsay_sfx = <<>>

\* ---- C15 ----

\* C15: a step of the second loop that reads a line matching none of the
\* patterns leaves the thread list, the open thread and its messages and
\* both pending intros as they were, and the loop goes on to the next line.
C15_UnmatchedLineDropped ==
  [][(parsePc = "pass2" /\ lineIdx' = lineIdx + 1
        /\ PriorityClass(filteredLines[lineIdx + 1]) = "none")
       => /\ UNCHANGED <<threads, currentContact, currentMsgs, contactAvatar,
                         pendingPlugsay, pendingRizzsay>>
          /\ parsePc' = "pass2"]_vars

\* An unmatched line has been read while a thread with a message is open
\* and an intro is pending, and the parser has returned.
C15_Witness ==
  /\ parsePc = "done"
  /\ \E i \in 2..Len(handledAs) :
       /\ handledAs[i].branch = "none"
       /\ PriorityClass(filteredLines[i]) = "none"
       /\ \E j \in 1..(i - 1) : handledAs[j].branch = "thread"
       /\ \E j \in 1..(i - 1) : handledAs[j].branch \in {"plugsay", "rizzsay"}
  /\ threads # <<>>

\* ========================================================================
\* The scene loop of runTextingVideo (src/worker.js 1960-2142): the parse
\* result is turned, message by message, into scenes, audio files and
\* timeline records.  Audio durations are in the time unit of the files.
\* ========================================================================

PAGE_SIZE_TEXT == 9
PAGE_SIZE_WITH_IMAGE == 6

\* Words that IMAGE_EXT_RE (222) matches, and words made of dots only.
ImageTokens == {"pic.png", "al.png"}
DotTokens == {".", "..."}

\* m.f || false, for a flag the message may not have.
Flag(m, f) == f \in DOMAIN m /\ m[f]

\* A non-null, non-empty string (the truthiness test of 492, 1518, 2091).
Truthy(opt) == opt # <<>> /\ opt[1] # <<>>

\* isImageMessage (1120-1124): the last word of the trimmed text has an
\* image extension.
isImageMessage(text) ==
  LET t == Trim(text) IN t # <<>> /\ t[Len(t)] \in ImageTokens

\* /^[.\s...]+$/.test(text) (2081).
isDotsOnly(text) ==
  text # <<>> /\ \A i \in 1..Len(text) : text[i] \in DotTokens \cup {" "}

\* tts_text || stripBlurMarkers(text || '') (2027, 1462, 1467).
TtsTextOf(tts, text) == IF tts # <<>> THEN tts ELSE stripBlurMarkers(text)

\* A page size that ignores images, for comparison with PageSize.
PageSizeText(thMsgs, st) == PAGE_SIZE_TEXT

\* The page of the thread that starts at st (1999-2004).
PageSize(thMsgs, st) ==
  LET tentativeWindow == SubSeq(thMsgs, st + 1, Min(st + PAGE_SIZE_TEXT, Len(thMsgs)))
      hasImage == \E k \in 1..Len(tentativeWindow) :
                    /\ ~Flag(tentativeWindow[k], "is_plug")
                    /\ ~Flag(tentativeWindow[k], "is_break")
                    /\ isImageMessage(stripBlurMarkers(tentativeWindow[k].text))
  IN IF hasImage THEN PAGE_SIZE_WITH_IMAGE ELSE PAGE_SIZE_TEXT

PageWindow(thMsgs, st) ==
  SubSeq(thMsgs, st + 1, Min(st + PageSize(thMsgs, st), Len(thMsgs)))

\* isImgFlags of makeBubbleClips (1086-1112).
IsImgFlag(m) ==
  IF Flag(m, "audio_only") \/ Flag(m, "is_plug") \/ Flag(m, "is_rizz")
       \/ Flag(m, "is_break")
    THEN FALSE
    ELSE isImageMessage(stripBlurMarkers(m.text))

\* getAudioDuration (428-443) of the audio files of the model.
getAudioDuration(wav) ==
  (CASE wav.audio = "silence" -> wav.nominal
     [] wav.audio = "speech" -> 2
     [] OTHER -> 1)
  + (IF wav.sfx THEN 1 ELSE 0)

NoScene == [scenes |-> <<>>, wavs |-> <<>>, records |-> <<>>, parts |-> <<>>,
            synth |-> <<>>, cards |-> <<>>, rendered |-> <<>>]

\* The break branch (2029-2041).
BreakScene(last) ==
  [NoScene EXCEPT
     !.scenes = <<"null">>,
     !.wavs = <<[audio |-> "silence", sfx |-> FALSE, nominal |-> last.duration_s]>>,
     !.records = <<[text |-> <<"<break", ":", NumStr(last.duration_s), "s", ">">>,
                    is_break |-> TRUE]>>,
     !.parts = <<"break">>]

\* The audio source of a text or image message (2081-2089).
UsesNotificationOrAudioOnly(last, lastIsImage) ==
  lastIsImage \/ isDotsOnly(last.text) \/ Flag(last, "audio_only")

UsesNotification(last, lastIsImage) == lastIsImage \/ isDotsOnly(last.text)

\* Whether the clip of a message ends with its effect (2091-2103): the
\* message names one, its file resolves and the concat exits 0; and the
\* same with the outcome of the two ignored.
EffectAppendedAlways(sfx, sfxAppended) == Truthy(sfx)

EffectAppended(sfx, sfxAppended) == Truthy(sfx) /\ sfxAppended

\* The message branch (2081-2119); sfxAppended says whether the effect file
\* resolved and the concat exited 0 (2091-2103).
MessageScene(last, lastIsImage, lastSender, sfxAppended) ==
  LET ttsText == TtsTextOf(last.tts_text, last.text)
      notify == UsesNotification(last, lastIsImage)
      isAudioOnly == Flag(last, "audio_only")
  IN [NoScene EXCEPT
        !.synth = IF notify THEN <<>>
                  ELSE <<[text |-> ttsText, speaker |-> last.speaker]>>,
        !.wavs = <<[audio |-> IF ~notify THEN "speech"
                              ELSE IF lastSender = <<"me">> THEN "sent"
                              ELSE "received",
                    sfx |-> EffectAppended(last.sfx, sfxAppended),
                    nominal |-> 0]>>,
        !.scenes = <<IF isAudioOnly THEN "null" ELSE "bubbles">>,
        !.rendered = <<last>>,
        !.records = <<[text |-> last.text, sfx |-> last.sfx,
                       audio_only |-> isAudioOnly]>>,
        !.parts = <<"message">>]

\* Whether generatePlugScene / generateRizzScene returns an intro audio
\* (1512-1524, 1693-1705) for an intro with the given silent flag and
\* effect; sfxResolved says whether resolveSfxPath finds the effect's file.
HasIntroAudioOnlyIfSpoken(silent, sfx, sfxResolved) == ~silent

HasIntroAudio(silent, sfx, sfxResolved) ==
  ~silent \/ (Truthy(sfx) /\ sfxResolved)

\* The order in which the intro and the reply of one message are pushed
\* (2047-2058, 2066-2077).
ReplyThenSay(say, reply) == reply \o say

SayThenReply(say, reply) == say \o reply

\* The plug and rizz branches (2043-2079) with generatePlugScene
\* (1460-1534) and generateRizzScene (1653-1716).
CardScene(last, kind, sfxResolved) ==
  LET say == IF kind = "plug"
               THEN [speaker |-> last.plugsay_speaker, text |-> last.plugsay_text,
                     tts_text |-> last.plugsay_tts_text, sfx |-> last.plugsay_sfx,
                     silent |-> last.plugsay_silent, replySilent |-> last.plug_silent]
               ELSE [speaker |-> last.rizzsay_speaker, text |-> last.rizzsay_text,
                     tts_text |-> last.rizzsay_tts_text, sfx |-> last.rizzsay_sfx,
                     silent |-> last.rizzsay_silent, replySilent |-> last.rizz_silent]
      hasSay == HasIntroAudio(say.silent, say.sfx, sfxResolved)
      hasReply == ~say.replySilent
  IN [NoScene EXCEPT
        !.cards = <<[kind |-> kind, text |-> last.text]>>,
        !.synth = (IF ~say.silent
                     THEN <<[text |-> TtsTextOf(say.tts_text, say.text),
                             speaker |-> say.speaker]>>
                     ELSE <<>>)
                  \o (IF hasReply
                        THEN <<[text |-> TtsTextOf(last.tts_text, last.text),
                                speaker |-> last.speaker]>>
                        ELSE <<>>),
        !.wavs = SayThenReply(
                   IF hasSay
                     THEN <<[audio |-> IF say.silent THEN "sfx" ELSE "speech",
                             sfx |-> FALSE, nominal |-> 0]>>
                     ELSE <<>>,
                   IF hasReply
                     THEN <<[audio |-> "speech", sfx |-> FALSE, nominal |-> 0]>>
                     ELSE <<>>),
        !.scenes = SayThenReply(
                     IF hasSay
                       THEN <<IF kind = "plug" THEN "plugFrame" ELSE "framePartial">>
                       ELSE <<>>,
                     IF hasReply
                       THEN <<IF kind = "plug" THEN "null" ELSE "frameFull">>
                       ELSE <<>>),
        !.records = SayThenReply(
                      IF hasSay THEN <<[text |-> say.text]>> ELSE <<>>,
                      IF hasReply THEN <<[text |-> last.text]>> ELSE <<>>),
        !.parts = SayThenReply(IF hasSay THEN <<"intro">> ELSE <<>>,
                               IF hasReply THEN <<"reply">> ELSE <<>>)]

\* One iteration of the loop body 2019-2121 for the message last.
SceneOf(last, sfxOk) ==
  IF Flag(last, "is_break") THEN BreakScene(last)
  ELSE IF Flag(last, "is_plug") THEN CardScene(last, "plug", sfxOk)
  ELSE IF Flag(last, "is_rizz") THEN CardScene(last, "rizz", sfxOk)
  ELSE MessageScene(last, IsImgFlag(last), last.sender, sfxOk)

\* The timeline records of a scene, stamped from the cursor t on.
RECURSIVE Stamp(_, _, _)
Stamp(records, wavs, t) ==
  IF records = <<>> THEN <<>>
  ELSE <<[rec |-> Head(records), start |-> t,
          end |-> t + getAudioDuration(Head(wavs))]>>
       \o Stamp(Tail(records), Tail(wavs), t + getAudioDuration(Head(wavs)))

RECURSIVE TotalDuration(_)
TotalDuration(wavs) ==
  IF wavs = <<>> THEN 0
  ELSE getAudioDuration(Head(wavs)) + TotalDuration(Tail(wavs))

jobVarsButTmpDir == <<jobPc, msgs, msgIdx, ttsCache, cachedAtStart, postsNow,
                      outMp3, synthCalls, resolved, failure, stagesRun,
                      rawOutputFile, finalOutputFile>>

trimVarsButCursor == <<rsPc, clips, clipIdx, duration, slabs, slabIdx, speech,
                       keepRanges, trimEncode, outputVideo, rsResult,
                       silenceTmpDir>>

\* The test of line 1967 on the parse result, and the same test never made.
NoConversationsIgnored(ths) == FALSE

NoConversations(ths) == ths = <<>>

\* Lines 1966-1990: the parse result is taken; with no thread the call
\* throws before the working directory is made, else mkdtempSync makes it.
StartBuild ==
  /\ parsePc = "done"
  /\ buildPc = "idle"
  /\ IF NoConversations(threads)
       THEN buildPc' = "failed" /\ tmpDir' = tmpDir
       ELSE buildPc' = "scenes" /\ tmpDir' = TRUE
  /\ curT' = 0
  /\ breakProtectedRanges' = <<>>
  /\ UNCHANGED <<threadIdx, start, winIdx, sceneIdx, scenesData, wavFiles,
                 messageTimeline, allRenderedMsgs, synthLog, cardLog, sceneLog>>
  /\ UNCHANGED <<framesVars, trimVarsButCursor, jobVarsButTmpDir, parseVars, serverVars>>

\* curT += duration for every clip a loop iteration pushes (2038, 2051,
\* 2057, 2070, 2076, 2118), and a cursor that is never advanced.
CursorAfterKept(t, wavs) == t

CursorAfter(t, wavs) == t + TotalDuration(wavs)

\* Line 2006: the poster is shown on the first window of a thread.
ShowPoster(st) == st = 0

\* Whether a message, or the intro a reply carries, names an effect.
NamesEffect(last) ==
  \/ Truthy(last.sfx)
  \/ Flag(last, "is_plug") /\ Truthy(last.plugsay_sfx)
  \/ Flag(last, "is_rizz") /\ Truthy(last.rizzsay_sfx)

\* One iteration of the loop body 2012-2122 with the bookkeeping of the
\* three loops around it (1993-1998, 2124).
BuildScene ==
  /\ buildPc = "scenes"
  /\ threadIdx < Len(threads)
  /\ LET thMsgs == threads[threadIdx + 1].messages
         window == PageWindow(thMsgs, start)
         last == window[winIdx + 1]
     IN \E sfxOk \in BOOLEAN :
          LET sc == SceneOf(last, sfxOk)
          IN /\ scenesData' = scenesData \o sc.scenes
             /\ wavFiles' = wavFiles \o sc.wavs
             /\ messageTimeline' = messageTimeline \o Stamp(sc.records, sc.wavs, curT)
             /\ breakProtectedRanges' =
                  IF Flag(last, "is_break")
                    THEN Append(breakProtectedRanges,
                                ProtectedRangeOf(curT, TotalDuration(sc.wavs)))
                    ELSE breakProtectedRanges
             /\ curT' = CursorAfter(curT, sc.wavs)
             /\ sceneIdx' = sceneIdx + Len(sc.scenes)
             /\ allRenderedMsgs' = allRenderedMsgs \o sc.rendered
             /\ synthLog' = synthLog \o sc.synth
             /\ cardLog' = cardLog \o sc.cards
             /\ sceneLog' = sceneLog \o
                  [k \in 1..Len(sc.parts) |->
                     [thread |-> threadIdx + 1, message |-> start + winIdx + 1,
                      part |-> sc.parts[k], start |-> start,
                      showPoster |-> ShowPoster(start),
                      sfxOk |-> sfxOk /\ NamesEffect(last)]]
             /\ IF winIdx + 1 < Len(window)
                  THEN winIdx' = winIdx + 1 /\ UNCHANGED <<start, threadIdx>>
                  ELSE IF start + PageSize(thMsgs, start) < Len(thMsgs)
                    THEN /\ start' = start + PageSize(thMsgs, start)
                         /\ winIdx' = 0
                         /\ UNCHANGED threadIdx
                    ELSE /\ threadIdx' = threadIdx + 1
                         /\ start' = 0
                         /\ winIdx' = 0
  /\ UNCHANGED <<buildPc, tmpDir>>
  /\ UNCHANGED <<framesVars, trimVarsButCursor, jobVarsButTmpDir, parseVars, serverVars>>

\* A call inside the loop body throws (genAi33ProAudio, convertToWav, a
\* renderer): the finally block removes the working directory (2139-2142).
BuildThrow ==
  /\ buildPc = "scenes"
  /\ threadIdx < Len(threads)
  /\ buildPc' = "failed"
  /\ tmpDir' = TmpDirAfterThrow
  /\ UNCHANGED <<threadIdx, start, winIdx, sceneIdx, scenesData, wavFiles,
                 messageTimeline, allRenderedMsgs, synthLog, cardLog, sceneLog,
                 curT, breakProtectedRanges>>
  /\ UNCHANGED <<framesVars, trimVarsButCursor, jobVarsButTmpDir, parseVars, serverVars>>

\* Lines 2128-2142: concat, encode and mux, which succeed or throw; the
\* finally block removes the working directory either way.
FinishBuild ==
  /\ buildPc = "scenes"
  /\ threadIdx = Len(threads)
  /\ \E ok \in BOOLEAN :
       /\ buildPc' = IF ok THEN "muxed" ELSE "failed"
       /\ tmpDir' = IF ok THEN FALSE ELSE TmpDirAfterThrow
  /\ UNCHANGED <<threadIdx, start, winIdx, sceneIdx, scenesData, wavFiles,
                 messageTimeline, allRenderedMsgs, synthLog, cardLog, sceneLog,
                 curT, breakProtectedRanges>>
  /\ UNCHANGED <<framesVars, trimVarsButCursor, jobVarsButTmpDir, parseVars, serverVars>>

NextBuild ==
  \/ FilterDirectives
  \/ ParseLine
  \/ FlushThread
  \/ StartBuild
  \/ BuildScene
  \/ BuildThrow
  \/ FinishBuild

\* Scripts of one thread of text, image, dots-only, audio-only and empty
\* messages and breaks.
BuildLineChoices ==
  { <<"Bob", " ", ">", " ", "me", ":", " ", "hi", " ", "[", "knock", "]">>,
    <<"Bob", " ", ">", " ", "audio", ":", " ", "yo">>,
    <<"me", ":", " ", "pic.png">>,
    <<"Bob", ":", " ", "...">>,
    <<"me", ":">>,
    <<"Bob", ":", " ", "[", "knock", "]">>,
    <<"Bob", ":", " ", "{", "}">>,
    <<"<break", ":", "2", "s", ">">> }

\* Scripts of one or more threads of messages, intros and replies.
CardLineChoices ==
  { <<"iMessage", ":", " ", "Al">>,
    <<"Bob", " ", ">", " ", "me", ":", " ", "hi">>,
    <<"plugsay", " ", ">", " ", "none", ":", " ", "hi", " ", "[", "knock", "]">>,
    <<"plugsay", " ", ">", " ", "Bob", ":", " ", "hi">>,
    <<"plug", " ", ">", " ", "Bob", ":", " ", "yo", " ", "[", "knock", "]">>,
    <<"Plug", " ", ">", " ", "None", ":", " ", "yo">>,
    <<"rizzsay", ">", "none", ":", "hi">>,
    <<"rizz", " ", ">", " ", "Bob", ":", " ", "yo">> }

\* The scripts that open a thread on their first line and go on with at
\* most n lines of the given kind.
ThreadScripts(choices, n) ==
  {<<<<"iMessage", ":", " ", "Bob">>>> \o body : body \in SeqsUpTo(choices, n)}

InitBuild == InitParseFrom(ThreadScripts(BuildLineChoices, MaxBuildLines))

InitCards == InitParseFrom(ThreadScripts(CardLineChoices, MaxCardLines))

SpecBuild == InitBuild /\ [][NextBuild]_vars

SpecCards == InitCards /\ [][NextBuild]_vars

\* ---- C13 ----

\* C13: every text or image message the scene loop has consumed has a
\* non-empty speech text (its tts_text or, failing that, its text without
\* redaction markers, 2027).
C13_SpeechTextNonEmpty ==
  \A k \in 1..Len(allRenderedMsgs) :
    TtsTextOf(allRenderedMsgs[k].tts_text, allRenderedMsgs[k].text) # <<>>

\* ---- C14 ----

\* The raw text of a message line: what follows the colon that ends the
\* speaker part.
RawTextOf(line) ==
  CASE Branch(line) \in {"plugsay", "plug", "rizzsay", "rizz"} ->
         MatchKeyword(line, Branch(line))[1].g2
    [] Branch(line) = "twopart" ->
         SubSeq(line, IndexOf(line, ":", IndexOf(line, ">", 1)) + 1, Len(line))
    [] Branch(line) = "single" ->
         SubSeq(line, IndexOf(line, ":", 1) + 1, Len(line))

\* Whether a text ends with a bracketed effect name.
EndsWithEffect(text) ==
  LET t == TrimRight(text)
  IN Len(t) >= 3 /\ t[Len(t)] = "]" /\ t[Len(t) - 2] = "["

EffectOf(text) == <<<<TrimRight(text)[Len(TrimRight(text)) - 1]>>>>

\* What the line just read produced: the message it pushed or the intro it
\* left pending.
ProducedByLastLine ==
  CASE Branch(filteredLines[lineIdx]) = "plugsay" -> pendingPlugsay[1]
    [] Branch(filteredLines[lineIdx]) = "rizzsay" -> pendingRizzsay[1]
    [] OTHER -> currentMsgs[Len(currentMsgs)]

ExtractedFrom(line, m) ==
  IF EndsWithEffect(RawTextOf(line))
    THEN /\ m.sfx = EffectOf(RawTextOf(line))
         /\ ~EndsWithEffect(m.text)
         /\ ~EndsWithEffect(m.tts_text)
    ELSE m.sfx = <<>>

\* C14: for every message line just read (two-part, single-part, intro or
\* reply), a trailing [name] of the raw text is the effect of what the line
\* produced and is absent from its text and speech text; without such a
\* suffix the effect is null.
C14_EffectSuffixExtracted ==
  (parsePc = "pass2" /\ lineIdx > 0
     /\ \/ Branch(filteredLines[lineIdx]) \in {"plugsay", "rizzsay"}
        \/ handledAs[lineIdx].pushed = 1
             /\ Branch(filteredLines[lineIdx]) \in {"plug", "rizz", "twopart", "single"})
    => ExtractedFrom(filteredLines[lineIdx], ProducedByLastLine)

\* The same for two-part, single-part and intro lines only.
EffectSuffixExtractedButReplies ==
  (parsePc = "pass2" /\ lineIdx > 0
     /\ \/ Branch(filteredLines[lineIdx]) \in {"plugsay", "rizzsay"}
        \/ handledAs[lineIdx].pushed = 1
             /\ Branch(filteredLines[lineIdx]) \in {"twopart", "single"})
    => ExtractedFrom(filteredLines[lineIdx], ProducedByLastLine)

\* ---- C16 ----

\* The message a timeline record was made for.
MessageOf(entry) == threads[entry.thread].messages[entry.message]

\* The fixed notification sound of a message's side.
NotificationOf(m) == IF m.sender = <<"me">> THEN "sent" ELSE "received"

\* The number of speech resolutions the message scenes account for.
SpeechScenes == Cardinality({k \in 1..Len(wavFiles) : wavFiles[k].audio = "speech"})

\* C16 (as stated): the audio of every message scene is the notification
\* sound of its side when the message is an image reference, dots-only or
\* audio-only, and resolved speech otherwise; speech is resolved for the
\* latter scenes only.
C16_NotificationSoundForNonSpeech ==
  /\ \A k \in 1..Len(sceneLog) :
       sceneLog[k].part = "message" =>
         LET m == MessageOf(sceneLog[k])
         IN IF \/ isImageMessage(stripBlurMarkers(m.text))
               \/ isDotsOnly(m.text)
               \/ Flag(m, "audio_only")
              THEN wavFiles[k].audio = NotificationOf(m)
              ELSE wavFiles[k].audio = "speech"
  /\ Len(synthLog) = SpeechScenes

\* C16 (amended): the notification sound is used when the message is
\* dots-only or is an image reference that is not audio-only; every other
\* message, audio-only ones included, resolves speech.
C16_NotificationSoundForImageOrDots ==
  /\ \A k \in 1..Len(sceneLog) :
       sceneLog[k].part = "message" =>
         LET m == MessageOf(sceneLog[k])
         IN IF \/ isImageMessage(stripBlurMarkers(m.text)) /\ ~Flag(m, "audio_only")
               \/ isDotsOnly(m.text)
              THEN wavFiles[k].audio = NotificationOf(m)
              ELSE /\ wavFiles[k].audio = "speech"
                   /\ \E j \in 1..Len(synthLog) :
                        /\ synthLog[j].speaker = m.speaker
                        /\ synthLog[j].text = TtsTextOf(m.tts_text, m.text)
  /\ Len(synthLog) = SpeechScenes

\* An outgoing image, an incoming dots-only message and an audio-only
\* message have been resolved: sent sound, received sound, speech.
C16_Witness ==
  /\ buildPc = "muxed"
  /\ \E a, b, c \in 1..Len(sceneLog) :
       /\ isImageMessage(MessageOf(sceneLog[a]).text) /\ wavFiles[a].audio = "sent"
       /\ isDotsOnly(MessageOf(sceneLog[b]).text) /\ wavFiles[b].audio = "received"
       /\ Flag(MessageOf(sceneLog[c]), "audio_only") /\ wavFiles[c].audio = "speech"

\* ---- C17 ----

IsCard(m) == Flag(m, "is_plug") \/ Flag(m, "is_rizz")

\* Whether a plug or rizz message carries an intro line, and the silent
\* flags of its intro and reply.
CarriesIntro(m) ==
  IF Flag(m, "is_plug")
    THEN m.plugsay_text # <<>> \/ m.plugsay_sfx # <<>> \/ m.plugsay_silent
    ELSE m.rizzsay_text # <<>> \/ m.rizzsay_sfx # <<>> \/ m.rizzsay_silent

IntroSilent(m) == IF Flag(m, "is_plug") THEN m.plugsay_silent ELSE m.rizzsay_silent

ReplySilent(m) == IF Flag(m, "is_plug") THEN m.plug_silent ELSE m.rizz_silent

\* The messages the scene loop has wholly processed, as <<thread, message>>.
Processed ==
  {tm \in (1..Len(threads)) \X (1..MaxThreadLines + MaxBuildLines + MaxCardLines) :
     /\ tm[2] <= Len(threads[tm[1]].messages)
     /\ \/ tm[1] <= threadIdx
        \/ tm[1] = threadIdx + 1 /\ tm[2] <= start + winIdx}

PartsOf(tm) ==
  LET ks == {k \in 1..Len(sceneLog) :
               sceneLog[k].thread = tm[1] /\ sceneLog[k].message = tm[2]}
  IN [part \in {"intro", "reply"} |->
        Cardinality({k \in ks : sceneLog[k].part = part})]

\* C17: for each plug or rizz message processed, the card collaborator was
\* called once, an intro scene was appended exactly when the message
\* carries an intro that is not silent, and a reply scene exactly when the
\* reply is not silent.
C17_CardScenes ==
  /\ Len(cardLog) = Cardinality({tm \in Processed :
                                   IsCard(threads[tm[1]].messages[tm[2]])})
  /\ \A tm \in Processed :
       LET m == threads[tm[1]].messages[tm[2]]
       IN IsCard(m) =>
            /\ PartsOf(tm)["intro"] =
                 (IF CarriesIntro(m) /\ ~IntroSilent(m) THEN 1 ELSE 0)
            /\ PartsOf(tm)["reply"] = (IF ReplySilent(m) THEN 0 ELSE 1)

\* ---- C19 ----

\* C19: the timeline records follow the threads of the parse result and the
\* messages of each thread in order; two records of one message are an
\* intro immediately followed by its reply; each record carries the text of
\* its message part and starts where the record before it ends; and once
\* the loop is over every break and every text or image message has its
\* record.
C19_ScenesInScriptOrder ==
  /\ Len(sceneLog) = Len(messageTimeline)
  /\ \A k \in 1..Len(sceneLog) :
       /\ sceneLog[k].thread \in 1..Len(threads)
       /\ sceneLog[k].message \in 1..Len(threads[sceneLog[k].thread].messages)
       /\ messageTimeline[k].rec.text =
            (CASE sceneLog[k].part = "break" ->
                    <<"<break", ":", NumStr(MessageOf(sceneLog[k]).duration_s), "s", ">">>
               [] sceneLog[k].part = "intro" /\ Flag(MessageOf(sceneLog[k]), "is_plug") ->
                    MessageOf(sceneLog[k]).plugsay_text
               [] sceneLog[k].part = "intro" /\ Flag(MessageOf(sceneLog[k]), "is_rizz") ->
                    MessageOf(sceneLog[k]).rizzsay_text
               [] OTHER -> MessageOf(sceneLog[k]).text)
       /\ messageTimeline[k].start = (IF k = 1 THEN 0 ELSE messageTimeline[k - 1].end)
       /\ messageTimeline[k].start <= messageTimeline[k].end
  /\ \A k, l \in 1..Len(sceneLog) :
       k < l =>
         /\ sceneLog[k].thread <= sceneLog[l].thread
         /\ sceneLog[k].thread = sceneLog[l].thread
              => sceneLog[k].message <= sceneLog[l].message
         /\ (sceneLog[k].thread = sceneLog[l].thread
               /\ sceneLog[k].message = sceneLog[l].message)
              => l = k + 1 /\ sceneLog[k].part = "intro" /\ sceneLog[l].part = "reply"
  /\ \A tm \in Processed :
       ~IsCard(threads[tm[1]].messages[tm[2]])
         => \E k \in 1..Len(sceneLog) :
              sceneLog[k].thread = tm[1] /\ sceneLog[k].message = tm[2]

\* Two threads have been resolved, the second with an intro record
\* immediately before its reply record.
C19_Witness ==
  /\ buildPc = "muxed"
  /\ Len(threads) = 2
  /\ \E k \in 2..(Len(sceneLog) - 1) :
       /\ sceneLog[k - 1].thread = 1
       /\ sceneLog[k].thread = 2 /\ sceneLog[k].part = "intro"
       /\ sceneLog[k + 1].part = "reply"

\* ---- C18 ----

\* The cumulative duration of the first n clips.
CursorAt(n) == SumSeq([k \in 1..n |-> clips[k].dur])

\* The positions of the breaks among the clips consumed.
BreaksRead == {k \in 1..clipIdx : clips[k].isBreak}

\* C18: the protected ranges are, in order, one per break consumed, each
\* from the cumulative time before its break to that time plus the break's
\* measured duration; the cursor is the cumulative time of the clips
\* consumed; the ranges are in increasing order and do not overlap.
C18_OneProtectedRangePerBreak ==
  rsPc # "idle" =>
    /\ Len(breakProtectedRanges) = Cardinality(BreaksRead)
    /\ curT = CursorAt(clipIdx)
    /\ \A i \in 1..Len(breakProtectedRanges) :
         \E k \in BreaksRead :
           /\ Cardinality({j \in BreaksRead : j <= k}) = i
           /\ breakProtectedRanges[i] = <<CursorAt(k - 1), CursorAt(k - 1) + clips[k].dur>>
    /\ \A i \in 1..Len(breakProtectedRanges) :
         /\ breakProtectedRanges[i][1] < breakProtectedRanges[i][2]
         /\ i > 1 => breakProtectedRanges[i - 1][2] <= breakProtectedRanges[i][1]

\* A break, a message and a second break have been consumed.
C18_Witness ==
  /\ clipIdx = 3
  /\ Len(breakProtectedRanges) = 2
  /\ breakProtectedRanges[1][2] < breakProtectedRanges[2][1]
  /\ curT = breakProtectedRanges[2][2]

\* ---- C20 ----

InitCleanup == InitJob \/ InitTrim

NextCleanup == NextJob \/ NextTrim

\* One call of runTextingVideo from the creation of its working directory
\* on, or one call of removeSilenceFromVideo.
SpecCleanup == InitCleanup /\ [][NextCleanup]_vars

\* C20: the working directory of runTextingVideo exists exactly while the
\* try block is running: it is gone once the call has thrown or has left
\* the block for the trimmer; and the trimmer's directory is gone once
\* removeSilenceFromVideo has returned or thrown.
C20_TmpDirsRemoved ==
  /\ jobPc \in {"failed", "trim", "done"} => ~tmpDir
  /\ (jobPc \notin {"idle", "failed", "trim", "done"}) => tmpDir
  /\ rsPc \in {"done", "thrown"} => ~silenceTmpDir
  /\ rsPc \in {"trim", "slabs", "select"} => silenceTmpDir

\* The frame encode has failed and the call has thrown.
C20_Witness ==
  /\ jobPc = "failed"
  /\ failure = "encode"
  /\ ~tmpDir

\* The trimmer has thrown.
C20_TrimmerThrowWitness ==
  /\ rsPc = "thrown"
  /\ ~silenceTmpDir

\* ---- C21 ----

\* Scripts of any shape, with or without a thread header, handed to the
\* whole call: parse, then the scene loop.
InitRun == InitParseFrom(SeqsUpTo(ThreadLineChoices, MaxRunLines))

SpecRun == InitRun /\ [][NextBuild]_vars

\* C21: once a script with no thread has been parsed and handed on, the
\* call has failed, and it has synthesised no speech, rendered no card or
\* scene, collected no audio, made no working directory and produced no raw
\* or final output file.
C21_NoThreadsFailsEarly ==
  (buildPc # "idle" /\ threads = <<>>) =>
     /\ buildPc = "failed"
     /\ synthLog = <<>> /\ cardLog = <<>> /\ sceneLog = <<>>
     /\ scenesData = <<>> /\ wavFiles = <<>> /\ messageTimeline = <<>>
     /\ ~tmpDir /\ ~rawOutputFile /\ ~finalOutputFile

\* A script with messages and an intro but no header has failed this way.
C21_Witness ==
  /\ buildPc = "failed"
  /\ threads = <<>>
  /\ Len(lines) = 2
  /\ \E i \in 1..Len(handledAs) : handledAs[i].branch = "twopart"

\* A header that no message follows leaves no thread either.
C21_HeaderOnlyWitness ==
  /\ buildPc = "failed"
  /\ threads = <<>>
  /\ \E i \in 1..Len(handledAs) : handledAs[i].branch = "thread"

\* ---- C22 ----

\* C22: cache entries are write-once. No step of a job changes a cache file
\* that exists with content: it is neither rewritten with other audio, nor
\* emptied, nor removed.
C22_CacheWriteOnce ==
  [][\A p \in CachePaths :
       ttsCache[p] \notin {"absent", "empty"} => ttsCache'[p] = ttsCache[p]]_vars

\* A later resolution of a key whose file held audio has finished, after a
\* synthesis earlier in the job, and the file still holds that audio.
C22_Witness ==
  \E i, j \in 1..Len(resolved) :
    /\ i < j
    /\ resolved[i].posts = 1
    /\ resolved[j].cachedBefore \notin {"absent", "empty"}
    /\ ttsCache[resolved[j].path] = resolved[j].cachedBefore

\* ------------------------------------------------------------------------
\* The job server (src/server.js). The clock counts whole periods of ten
\* minutes, the length of JOB_TTL_MS; the sweep timer, which fires every two
\* minutes, fires at any reading of it. Of createdAt the store keeps the
\* age, now - createdAt (30), which is all the sweep reads; ages past the
\* largest limit are not told apart.
\* ------------------------------------------------------------------------

JOB_TTL_MS == 1
JOB_MAX_STORE == 50
\* The limit of line 40 on the age of a running job, twenty minutes.
RunningLimit == 2

JobIds == 1..MaxJobs

\* String.prototype.trim on the form fields that occur.
TrimStr(str) == IF str = "  " THEN "" ELSE str

\* Generate requests: a complete one, and ones with no script file, a blank
\* key, no key, and a provider the server does not know.
Requests ==
  { [hasScript |-> TRUE, apiKey |-> "key", ttsProvider |-> ""],
    [hasScript |-> FALSE, apiKey |-> "key", ttsProvider |-> ""],
    [hasScript |-> TRUE, apiKey |-> "  ", ttsProvider |-> "elevenlabs"],
    [hasScript |-> TRUE, apiKey |-> "", ttsProvider |-> "elevenlabs"],
    [hasScript |-> TRUE, apiKey |-> "key", ttsProvider |-> "mp3"] }

\* Lines 93 and 95: the fields as the handler reads them.
ApiKeyOf(req) == TrimStr(req.apiKey)
ProviderOf(req) ==
  TrimStr(IF req.ttsProvider = "" THEN "ai33pro" ELSE req.ttsProvider)

\* The tests of lines 97-102.
BadRequest(req) ==
  \/ ~req.hasScript
  \/ ApiKeyOf(req) = ""
  \/ ProviderOf(req) \notin {"ai33pro", "elevenlabs"}

\* Lines 105-106.
ActiveCount(js) ==
  Cardinality({j \in DOMAIN js : js[j].status \in {"running", "queued"}})

\* The test of line 107, and one that lets a third job in.
AtCapacityAbove(activeCount) == activeCount > 2

AtCapacity(activeCount) == activeCount >= 2

Finished(job) == job.status \in {"done", "error"}

Without(f, j) == [k \in DOMAIN f \ {j} |-> f[k]]

\* _cleanJobFiles (66-75): the job directory goes, and the output file,
\* which the worker writes inside it (worker.js 1981), with it.
CleanJobFiles(fs, j) == [fs EXCEPT ![j] = [jobDir |-> FALSE, output |-> FALSE]]

Response(req, code) ==
  [hasScript |-> req.hasScript, apiKey |-> req.apiKey,
   ttsProvider |-> req.ttsProvider, code |-> code]

\* POST /api/generate (86-149) with the synchronous start of _runJob
\* (187-207): the entry is stored as 'queued' (130-137) and set to 'running'
\* (190) before the handler returns, and the worker is forked. A file
\* operation that throws is answered with 500 (145-148); a fork that fails
\* rejects the promise and the entry is set to 'error' (140-142).
Generate ==
  /\ \E req \in Requests :
       IF BadRequest(req)
         THEN /\ response' = Response(req, 400)
              /\ UNCHANGED <<jobs, files, workers, nextJob>>
         ELSE IF AtCapacity(ActiveCount(jobs))
           THEN /\ response' = Response(req, 429)
                /\ UNCHANGED <<jobs, files, workers, nextJob>>
           ELSE /\ nextJob <= MaxJobs
                /\ nextJob' = nextJob + 1
                /\ \E outcome \in {"forked", "fs-throws", "fork-throws"} :
                     IF outcome = "fs-throws"
                       THEN /\ \E dirMade \in BOOLEAN :
                                 files' = [files EXCEPT
                                             ![nextJob].jobDir = dirMade]
                            /\ response' = Response(req, 500)
                            /\ UNCHANGED <<jobs, workers>>
                       ELSE /\ files' = [files EXCEPT
                                           ![nextJob].jobDir = TRUE]
                            /\ jobs' = jobs @@
                                 (nextJob :>
                                    [status |-> IF outcome = "forked"
                                                  THEN "running" ELSE "error",
                                     outputPath |-> FALSE,
                                     error |-> IF outcome = "forked"
                                                 THEN "none" ELSE "fork",
                                     age |-> 0])
                            /\ workers' = IF outcome = "forked"
                                            THEN workers \cup {nextJob}
                                            ELSE workers
                            /\ response' = Response(req, 200)
  /\ lastExit' = NoExit
  /\ UNCHANGED <<graceTimers, sinceDone, exiting>>
  /\ UNCHANGED <<framesVars, trimVars, jobVars, parseVars, buildVars>>

\* The exit codes a worker that has sent no report may leave with: 0, 1, or
\* none when a signal ended it.
ExitCodes == {"0", "1", "null"}

\* The exit of a worker after its report (worker.js 63-68): process.exit(1)
\* follows the 'error' report, and after 'done' the process runs out.
ExitCodeAfter(report) == IF report = "error" THEN "1" ELSE "0"

\* The status a 'done' report gives the job (221), whatever it was.
StatusAfterDone(job) == "done"

\* The worker's pipeline has returned and the 'done' report (worker.js 63)
\* is handled (218-225). The output file is in the job directory; when the
\* directory was taken away under the running worker, it has either been
\* made again by the pipeline (1739) or the file went with it.
WorkerDone ==
  /\ \E j \in workers :
       /\ workers' = workers \ {j}
       /\ exiting' = exiting @@ (j :> "done")
       /\ \E there \in BOOLEAN :
            /\ files[j].jobDir => there
            /\ files' = [files EXCEPT ![j] = [jobDir |-> there, output |-> there]]
       /\ IF j \in DOMAIN jobs
            THEN /\ jobs' = [jobs EXCEPT ![j].status = StatusAfterDone(jobs[j]),
                                         ![j].outputPath = TRUE]
                 /\ sinceDone' = [k \in DOMAIN sinceDone \cup {j} |->
                                    IF k = j THEN 0 ELSE sinceDone[k]]
            ELSE UNCHANGED <<jobs, sinceDone>>
  /\ response' = NoResponse
  /\ lastExit' = NoExit
  /\ UNCHANGED <<nextJob, graceTimers>>
  /\ UNCHANGED <<framesVars, trimVars, jobVars, parseVars, buildVars>>

\* The worker's pipeline has thrown and the 'error' report (worker.js
\* 65-67, 5-6) is handled (226-232), with the catch of 139-142 that the
\* rejected promise runs.
WorkerError ==
  /\ \E j \in workers :
       /\ workers' = workers \ {j}
       /\ exiting' = exiting @@ (j :> "error")
       /\ IF j \in DOMAIN jobs
            THEN /\ jobs' = [jobs EXCEPT ![j].status = "error",
                                         ![j].error = "reported"]
                 /\ files' = CleanJobFiles(files, j)
            ELSE UNCHANGED <<jobs, files>>
  /\ response' = NoResponse
  /\ lastExit' = NoExit
  /\ UNCHANGED <<nextJob, graceTimers, sinceDone>>
  /\ UNCHANGED <<framesVars, trimVars, jobVars, parseVars, buildVars>>

\* The 'exit' handler (235-242) for a job and the catch of 139-142, after a
\* handler that does not look at the status.
AfterExitAlways(js, fs, j) ==
  IF j \in DOMAIN js
    THEN [jobs |-> [js EXCEPT ![j].status = "error", ![j].error = "exit"],
          files |-> CleanJobFiles(fs, j)]
    ELSE [jobs |-> js, files |-> fs]

AfterExit(js, fs, j) ==
  IF j \in DOMAIN js /\ js[j].status = "running"
    THEN [jobs |-> [js EXCEPT ![j].status = "error", ![j].error = "exit"],
          files |-> CleanJobFiles(fs, j)]
    ELSE [jobs |-> js, files |-> fs]

\* A worker process exits (235-242): one that has sent its report, with the
\* code that follows the report, or one that has sent none, with any code.
WorkerExit ==
  /\ \E j \in workers \cup DOMAIN exiting :
       /\ workers' = workers \ {j}
       /\ exiting' = [k \in DOMAIN exiting \ {j} |-> exiting[k]]
       /\ IF j \in DOMAIN exiting
            THEN lastExit' = [job |-> j, report |-> exiting[j],
                              code |-> ExitCodeAfter(exiting[j])]
            ELSE \E code \in ExitCodes :
                   lastExit' = [job |-> j, report |-> "none", code |-> code]
       /\ jobs' = AfterExit(jobs, files, j).jobs
       /\ files' = AfterExit(jobs, files, j).files
  /\ response' = NoResponse
  /\ UNCHANGED <<nextJob, graceTimers, sinceDone>>
  /\ UNCHANGED <<framesVars, trimVars, jobVars, parseVars, buildVars>>

\* The ids the loop of lines 29-45 deletes.
Expired(js) == {j \in DOMAIN js : Finished(js[j]) /\ js[j].age > JOB_TTL_MS}

\* The ids the loop sets to 'error' (39-44), and a loop without the test.
StuckNever(js) == {}

Stuck(js) ==
  {j \in DOMAIN js : js[j].status = "running" /\ js[j].age > RunningLimit}

\* The order of the sort of line 51 with the stability of the sort: job k
\* comes before job j when it was created earlier or, created at the same
\* reading of the clock, was inserted earlier; and the reverse order.
YoungerFirst(js, k, j) ==
  \/ js[k].age < js[j].age
  \/ js[k].age = js[j].age /\ k > j

OlderFirst(js, k, j) ==
  \/ js[k].age > js[j].age
  \/ js[k].age = js[j].age /\ k < j

\* The ids the hard cap evicts (47-55): of the finished jobs in the order of
\* the sort, the first n.
Evicted(js, n) ==
  IF n <= 0 THEN {}
  ELSE LET finished == {j \in DOMAIN js : Finished(js[j])}
       IN {j \in finished :
             Cardinality({k \in finished : OlderFirst(js, k, j)}) < n}

\* The interval timer fires (27-56): one sweep of the store.
Sweep ==
  /\ \E expired \in {Expired(jobs)}, stuck \in {Stuck(jobs)} :
       \E swept \in {[j \in DOMAIN jobs \ expired |->
                        IF j \in stuck
                          THEN [jobs[j] EXCEPT !.status = "error",
                                               !.error = "timeout"]
                          ELSE jobs[j]]} :
         \E evicted \in {Evicted(swept, Cardinality(DOMAIN swept) - JOB_MAX_STORE)} :
           /\ jobs' = [j \in DOMAIN swept \ evicted |-> swept[j]]
           /\ files' = [j \in DOMAIN files |->
                          IF j \in expired \cup stuck \cup evicted
                            THEN [jobDir |-> FALSE, output |-> FALSE]
                            ELSE files[j]]
           /\ sinceDone' = [j \in DOMAIN sinceDone \cap DOMAIN jobs' |->
                              sinceDone[j]]
  /\ response' = NoResponse
  /\ lastExit' = NoExit
  /\ UNCHANGED <<workers, nextJob, graceTimers, exiting>>
  /\ UNCHANGED <<framesVars, trimVars, jobVars, parseVars, buildVars>>

\* Ten minutes pass: Date.now() (28, 136) reads one more.
Tick ==
  /\ jobs' = [j \in DOMAIN jobs |->
                [jobs[j] EXCEPT !.age = Min(jobs[j].age + 1, RunningLimit + 1)]]
  /\ sinceDone' = [j \in DOMAIN sinceDone |->
                     Min(sinceDone[j] + 1, JOB_TTL_MS)]
  /\ response' = NoResponse
  /\ lastExit' = NoExit
  /\ UNCHANGED <<files, workers, nextJob, graceTimers, exiting>>
  /\ UNCHANGED <<framesVars, trimVars, jobVars, parseVars, buildVars>>

\* GET /api/download/:jobId answered with the file (164-175): when the
\* transfer succeeds the 60-second timer is set.
Download ==
  /\ \E j \in DOMAIN jobs :
       /\ jobs[j].outputPath
       /\ files[j].output
       /\ \E sent \in BOOLEAN :
            graceTimers' = IF sent THEN graceTimers \cup {j} ELSE graceTimers
  /\ response' = NoResponse
  /\ lastExit' = NoExit
  /\ UNCHANGED <<jobs, files, workers, nextJob, sinceDone, exiting>>
  /\ UNCHANGED <<framesVars, trimVars, jobVars, parseVars, buildVars>>

\* A download timer fires: _deleteJob (58-64), which does nothing when the
\* job is gone already.
GraceExpires ==
  /\ \E j \in graceTimers :
       /\ graceTimers' = graceTimers \ {j}
       /\ IF j \in DOMAIN jobs
            THEN /\ jobs' = Without(jobs, j)
                 /\ files' = CleanJobFiles(files, j)
                 /\ sinceDone' = [k \in DOMAIN sinceDone \ {j} |-> sinceDone[k]]
            ELSE UNCHANGED <<jobs, files, sinceDone>>
  /\ response' = NoResponse
  /\ lastExit' = NoExit
  /\ UNCHANGED <<workers, nextJob, exiting>>
  /\ UNCHANGED <<framesVars, trimVars, jobVars, parseVars, buildVars>>

InitServer ==
  /\ ServerIdle
  /\ FramesIdle
  /\ TrimIdle
  /\ JobIdle
  /\ ParseIdle
  /\ BuildIdle

NextServer ==
  \/ Generate
  \/ WorkerDone
  \/ WorkerError
  \/ WorkerExit
  \/ Sweep
  \/ Tick
  \/ Download
  \/ GraceExpires

SpecServer == InitServer /\ [][NextServer]_vars

\* ---- C23 ----

\* C23: the server caps concurrency. At most two jobs are 'queued' or
\* 'running' at any time; a generate request made while two jobs are active,
\* or without a script file, without an API key or with an invalid provider,
\* is answered 429 or 400, and a request answered so adds no job entry,
\* starts no worker and makes no job directory.
C23_ConcurrencyCap ==
  /\ [](ActiveCount(jobs) <= 2)
  /\ [][/\ response'.code \in {200, 500} =>
             /\ ActiveCount(jobs) < 2
             /\ response'.hasScript
             /\ response'.apiKey \notin {"", "  "}
             /\ response'.ttsProvider \in {"", "ai33pro", "elevenlabs"}
        /\ response'.code \in {400, 429} =>
             /\ jobs' = jobs
             /\ workers' = workers
             /\ files' = files
        /\ response'.code = 0 =>
             /\ DOMAIN jobs' \subseteq DOMAIN jobs
             /\ workers' \subseteq workers]_vars

\* Two jobs are running and a third request has been turned away.
C23_Witness ==
  /\ ActiveCount(jobs) = 2
  /\ response.code = 429

\* A request without an API key has been turned away.
C23_BadRequestWitness ==
  /\ response.code = 400
  /\ response.hasScript
  /\ response.apiKey = "  "

\* ---- C24 ----

\* C24: a finished job is kept for the time to live after it finished. No
\* step removes from the store, or takes the output file of, a 'done' job
\* that has no download timer and was reported done less than JOB_TTL_MS ago.
C24_KeptForTtlAfterFinish ==
  [][\A j \in DOMAIN jobs :
       (jobs[j].status = "done" /\ j \notin graceTimers
          /\ sinceDone[j] < JOB_TTL_MS) =>
         (j \in DOMAIN jobs' /\ files'[j].output)]_vars

\* What the sweep keeps to: no finished job goes before JOB_TTL_MS have
\* passed since its creation.
KeptForTtlAfterCreation ==
  [][\A j \in DOMAIN jobs :
       (Finished(jobs[j]) /\ j \notin graceTimers
          /\ jobs[j].age <= JOB_TTL_MS) =>
         j \in DOMAIN jobs']_vars

\* ---- C25 ----

\* The array a call starts with (510), and one kept from the call before.
ThreadsAtEntryKept(ths) == ths

ThreadsAtEntry(ths) == <<>>

\* What a call returns (676).
ParseResult ==
  [unreadCount |-> unreadCount, uiCornerRadius |-> uiCornerRadius,
   threads |-> threads]

\* The parser is called a second time on the same text: the file is read
\* again and every local starts from its declaration (503-535).
ParseAgain ==
  /\ parsePc = "done"
  /\ parseCalls = 1
  /\ firstResult' = <<ParseResult>>
  /\ parseCalls' = 2
  /\ parsePc' = "pass1"
  /\ filteredLines' = <<>>
  /\ lineIdx' = 0
  /\ unreadCount' = <<"999999+">>
  /\ uiCornerRadius' = 50
  /\ threads' = ThreadsAtEntry(threads)
  /\ currentContact' = <<>>
  /\ currentMsgs' = <<>>
  /\ contactAvatar' = <<>>
  /\ pendingPlugsay' = <<>>
  /\ pendingRizzsay' = <<>>
  /\ handledAs' = <<>>
  /\ UNCHANGED lines
  /\ UNCHANGED <<framesVars, trimVars, jobVars, buildVars, serverVars>>

NextParseTwice ==
  \/ FilterDirectives
  \/ ParseLine
  \/ FlushThread
  \/ ParseAgain

SpecParseTwice == InitParse /\ [][NextParseTwice]_vars

C25_PendingWitness ==
  /\ parseCalls = 2
  /\ parsePc = "done"
  /\ pendingPlugsay # <<>>

\* ---- C26 ----

\* The messages produced so far that are still held: those of the threads
\* pushed and, until the final push, those of the open thread.
MessagesSoFar ==
  LET pushed == [t \in 1..Len(threads) |-> threads[t].messages]
      Flat[k \in 0..Len(pushed)] ==
        IF k = 0 THEN <<>> ELSE Flat[k - 1] \o pushed[k]
  IN Flat[Len(pushed)] \o (IF parsePc = "done" THEN <<>> ELSE currentMsgs)

\* The lines of the given branch among those read.
LinesRead(branch) ==
  {i \in 1..lineIdx : Branch(filteredLines[i]) = branch}

\* The intro fields a reply message carries, and those of a pending intro,
\* or of none for a reply of the given speaker.
CarriedIntro(m) ==
  IF Flag(m, "is_plug")
    THEN <<m.plugsay_speaker, m.plugsay_text, m.plugsay_tts_text,
           m.plugsay_sfx, m.plugsay_silent>>
    ELSE <<m.rizzsay_speaker, m.rizzsay_text, m.rizzsay_tts_text,
           m.rizzsay_sfx, m.rizzsay_silent>>

IntroFields(pending, speaker) ==
  IF pending = <<>> THEN <<speaker, <<>>, <<>>, <<>>, FALSE>>
  ELSE <<pending[1].speaker, pending[1].text, pending[1].tts_text,
         pending[1].sfx, pending[1].silent>>

\* What a step that reads a reply line does with the pending intro of the
\* kind: the message, pushed when a thread is open, carries it, and it is
\* null afterwards either way; the pending intro of the other kind stays.
ReplyConsumes(kind, pending, pendingAfter, other, otherAfter) ==
  (parsePc = "pass2" /\ lineIdx' = lineIdx + 1
     /\ Branch(filteredLines[lineIdx + 1]) = kind) =>
    /\ pendingAfter = <<>>
    /\ otherAfter = other
    /\ IF currentContact = <<>>
         THEN currentMsgs' = currentMsgs
         ELSE /\ Len(currentMsgs') = Len(currentMsgs) + 1
              /\ SubSeq(currentMsgs', 1, Len(currentMsgs)) = currentMsgs
              /\ LET m == currentMsgs'[Len(currentMsgs')]
                 IN /\ m.sender = <<kind>>
                    /\ CarriedIntro(m) = IntroFields(pending, m.speaker)

\* C26: a reply line consumes the pending intro of its kind. The step that
\* reads a plug or rizz line gives the message the fields of the pending
\* intro of that kind and leaves that pending intro null, whether or not a
\* thread is open; and the messages produced never hold more replies with a
\* merged intro than intro lines of the kind have been read.
C26_ReplyConsumesIntro ==
  /\ [][/\ ReplyConsumes("plug", pendingPlugsay, pendingPlugsay',
                         pendingRizzsay, pendingRizzsay')
        /\ ReplyConsumes("rizz", pendingRizzsay, pendingRizzsay',
                         pendingPlugsay, pendingPlugsay')]_vars
  /\ [](parsePc \in {"pass2", "done"} =>
          /\ Cardinality({k \in 1..Len(MessagesSoFar) :
                            /\ Flag(MessagesSoFar[k], "is_plug")
                            /\ MessagesSoFar[k].plugsay_text # <<>>})
               <= Cardinality(LinesRead("plugsay"))
          /\ Cardinality({k \in 1..Len(MessagesSoFar) :
                            /\ Flag(MessagesSoFar[k], "is_rizz")
                            /\ MessagesSoFar[k].rizzsay_text # <<>>})
               <= Cardinality(LinesRead("rizzsay")))

\* An intro, then two replies of its kind in one thread: the first carries
\* the intro, the second carries none.
C26_Witness ==
  /\ lineIdx = 4
  /\ [i \in 1..4 |-> handledAs[i].branch] = <<"thread", "plugsay", "plug", "plug">>
  /\ Len(currentMsgs) = 2
  /\ currentMsgs[1].plugsay_text # <<>>
  /\ currentMsgs[2].plugsay_text = <<>>

\* An intro and a reply before any thread, then a reply in a thread: the
\* reply outside produced no message and still used the intro up.
C26_NoThreadWitness ==
  /\ lineIdx = 4
  /\ [i \in 1..4 |-> handledAs[i].branch] = <<"rizzsay", "rizz", "thread", "rizz">>
  /\ handledAs[2].pushed = 0
  /\ Len(currentMsgs) = 1
  /\ currentMsgs[1].rizzsay_text = <<>>

\* ---- C27 ----

\* Message texts put together from a word, a redacted word, the separator
\* ' == ', single braces, blanks and equals signs.
SegChoices ==
  { <<"a">>, <<"{", "a", "}">>, <<" ", "=", "=", " ">>, <<"{">>, <<"}">>,
    <<" ">>, <<"=">> }

RECURSIVE Flatten(_)
Flatten(segs) == IF segs = <<>> THEN <<>> ELSE Head(segs) \o Flatten(Tail(segs))

SplitTexts ==
  {t \in {Flatten(segs) : segs \in SeqsUpTo(SegChoices, MaxSegs)} :
     t # <<>> /\ t[Len(t)] # " "}

\* Scripts of one single-part message line; a line has no blank at its end
\* (505).
InitSplit == InitParseFrom({<<<<"me", ":", " ">> \o t>> : t \in SplitTexts})

SpecSplit == InitSplit /\ [][NextParse]_vars

\* The positions of the braces of the redaction spans of a text from a
\* position on: a span opens at the first '{' that has a '}' after it and
\* closes at the first '}' after that.
RECURSIVE RedactionBraces(_, _)
RedactionBraces(text, from) ==
  LET opens == {o \in from..Len(text) :
                  text[o] = "{" /\ \E c \in (o + 1)..Len(text) : text[c] = "}"}
  IN IF opens = {} THEN {}
     ELSE LET o == MinOf(opens)
              c == MinOf({k \in (o + 1)..Len(text) : text[k] = "}"})
          IN {o, c} \cup RedactionBraces(text, c + 1)

\* The tokens of a text at the positions outside a set, in order.
RECURSIVE Outside(_, _, _)
Outside(text, drop, i) ==
  IF i > Len(text) THEN <<>>
  ELSE (IF i \in drop THEN <<>> ELSE <<text[i]>>) \o Outside(text, drop, i + 1)

WithoutRedactionBraces(text) == Outside(text, RedactionBraces(text, 1), 1)

\* The positions at which ' == ' occurs in a text.
SeparatorsIn(text) ==
  {j \in 1..(Len(text) - 3) :
     SubSeq(text, j, j + 3) = <<" ", "=", "=", " ">>}

\* C27: the split into display and speech text. For the message of a line
\* whose cleaned text contains ' == ', the display text is the trimmed part
\* before the first occurrence and the speech text the trimmed part after it
\* without the braces of its redaction spans; for any other, the display
\* text is the cleaned text and the speech text the cleaned text without
\* those braces. The display text keeps its braces.
C27_DisplaySpeechSplit ==
  (parsePc \in {"pass2", "done"} /\ lineIdx = 1
     /\ handledAs[1].branch = "single") =>
    LET clean == Trim(SubSeq(filteredLines[1], 3, Len(filteredLines[1])))
        seps == SeparatorsIn(clean)
        m == currentMsgs[1]
    IN IF seps # {}
         THEN /\ m.text = Trim(SubSeq(clean, 1, MinOf(seps) - 1))
              /\ m.tts_text =
                   WithoutRedactionBraces(
                     Trim(SubSeq(clean, MinOf(seps) + 4, Len(clean))))
         ELSE /\ m.text = clean
              /\ m.tts_text = WithoutRedactionBraces(clean)

\* A text with redaction on both sides of the separator has been split: the
\* display text keeps its braces, the speech text has none.
C27_Witness ==
  /\ parsePc = "done"
  /\ lineIdx = 1
  /\ Len(currentMsgs) = 1
  /\ currentMsgs[1].text = <<"{", "a", "}">>
  /\ currentMsgs[1].tts_text = <<"a">>
  /\ SeparatorsIn(filteredLines[1]) # {}

\* A text with two separators has been split at the first.
C27_TwoSeparatorsWitness ==
  /\ parsePc = "done"
  /\ lineIdx = 1
  /\ Len(currentMsgs) = 1
  /\ currentMsgs[1].text = <<"a">>
  /\ currentMsgs[1].tts_text = <<"a", " ", "=", "=", " ", "a">>

\* ---- C28 ----

\* C28: an effect is appended when its file resolves and the concat
\* succeeds, and is left out otherwise without any other change. The clip
\* of every message scene ends with the effect exactly when the message
\* names one and both steps succeeded; its speech or notification part, its
\* frame and its timeline record are what they are for the same message
\* with the effect missing, and there is one clip, one frame and one record
\* per scene whatever became of the effects.
C28_EffectAppendedOrBareClip ==
  /\ Len(wavFiles) = Len(sceneLog)
  /\ Len(scenesData) = Len(sceneLog)
  /\ Len(messageTimeline) = Len(sceneLog)
  /\ \A k \in 1..Len(sceneLog) :
       sceneLog[k].part = "message" =>
         LET m == MessageOf(sceneLog[k])
             bare == MessageScene(m, IsImgFlag(m), m.sender, FALSE)
         IN /\ wavFiles[k].sfx = (Truthy(m.sfx) /\ sceneLog[k].sfxOk)
            /\ wavFiles[k].audio = bare.wavs[1].audio
            /\ scenesData[k] = bare.scenes[1]
            /\ messageTimeline[k].rec.text = m.text
            /\ messageTimeline[k].rec.sfx = m.sfx
            /\ messageTimeline[k].end - messageTimeline[k].start
                 = getAudioDuration(bare.wavs[1])
                     + (IF wavFiles[k].sfx THEN 1 ELSE 0)

\* A job has been assembled in which one message got its effect and a
\* later one, naming an effect too, went on with its bare clip.
C28_Witness ==
  /\ buildPc = "muxed"
  /\ \E a, b \in 1..Len(sceneLog) :
       /\ a < b
       /\ sceneLog[a].part = "message" /\ sceneLog[b].part = "message"
       /\ Truthy(MessageOf(sceneLog[a]).sfx) /\ wavFiles[a].sfx
       /\ Truthy(MessageOf(sceneLog[b]).sfx) /\ ~wavFiles[b].sfx
       /\ Len(sceneLog) > b

\* ---- C29 ----

\* Threads long enough to take several windows: one thread of text and
\* image messages, or two threads of image messages.
PageLineChoices ==
  { <<"me", ":", " ", "hi">>,
    <<"Bob", ":", " ", "pic.png">> }

PageScripts ==
  ThreadScripts(PageLineChoices, MaxPageLines)
    \cup {a \o b : a, b \in ThreadScripts({<<"Bob", ":", " ", "pic.png">>},
                                          MaxPageLines)}

InitPages == InitParseFrom(PageScripts)

SpecPages == InitPages /\ [][NextBuild]_vars

\* The scenes built so far of a thread, and those of one of its windows.
ScenesOfThread(t) == {k \in 1..Len(sceneLog) : sceneLog[k].thread = t}

ScenesOfWindow(t, st) == {k \in ScenesOfThread(t) : sceneLog[k].start = st}

\* A message that is shown as an image.
IsImage(m) == isImageMessage(m.text)

\* C29: pagination. The messages of a thread are taken in consecutive
\* windows: every message consumed is in exactly one window, a window begins
\* at the first message or right after the last message of the window
\* before, no window has more than PAGE_SIZE_TEXT messages, and none has
\* more than PAGE_SIZE_WITH_IMAGE when one of the PAGE_SIZE_TEXT messages
\* from its start on is an image, so that no window with an image in it has
\* more; the poster is shown on the scenes of the first window of a thread
\* and on no other.
C29_Pagination ==
  \A t \in 1..Len(threads) :
    LET ms == threads[t].messages
        ks == ScenesOfThread(t)
    IN /\ \A k \in ks :
            LET i == sceneLog[k].message
                st == sceneLog[k].start
                size == Cardinality(ScenesOfWindow(t, st))
                tentative == {j \in (st + 1)..Min(st + PAGE_SIZE_TEXT, Len(ms)) :
                                IsImage(ms[j])}
            IN /\ st < i /\ i <= st + PAGE_SIZE_TEXT
               /\ \A l \in ks : sceneLog[l].message = i => l = k
               /\ size <= PAGE_SIZE_TEXT
               /\ tentative # {} => size <= PAGE_SIZE_WITH_IMAGE
               /\ (\E l \in ScenesOfWindow(t, st) :
                     IsImage(ms[sceneLog[l].message]))
                    => size <= PAGE_SIZE_WITH_IMAGE
               /\ IF i = 1 THEN st = 0
                  ELSE \E l \in ks :
                         /\ sceneLog[l].message = i - 1
                         /\ st \in {sceneLog[l].start, i - 1}
               /\ sceneLog[k].showPoster <=> st = 0
       /\ \A i \in 1..Len(ms) :
            (\E k \in ks : sceneLog[k].message > i)
              => \E k \in ks : sceneLog[k].message = i

\* A thread of ten messages whose image comes seventh has been taken in two
\* windows, of six and of four, with the poster on the first only.
C29_Witness ==
  /\ buildPc = "muxed"
  /\ Len(threads) = 1
  /\ Len(threads[1].messages) = 10
  /\ Cardinality(ScenesOfWindow(1, 0)) = 6
  /\ Cardinality(ScenesOfWindow(1, 6)) = 4
  /\ IsImage(threads[1].messages[7])
  /\ \A k \in ScenesOfThread(1) : sceneLog[k].showPoster <=> sceneLog[k].start = 0

\* A thread of ten text messages has been taken in windows of nine and one.
C29_TextWitness ==
  /\ buildPc = "muxed"
  /\ Len(threads) = 1
  /\ Cardinality(ScenesOfWindow(1, 0)) = 9
  /\ Cardinality(ScenesOfWindow(1, 9)) = 1

\* Two threads of several windows each: the second starts with the poster
\* again.
C29_TwoThreadsWitness ==
  /\ buildPc = "muxed"
  /\ Len(threads) = 2
  /\ Cardinality(ScenesOfWindow(1, 6)) > 0
  /\ Cardinality(ScenesOfWindow(2, 6)) > 0
  /\ \E k \in ScenesOfThread(2) : sceneLog[k].showPoster

\* ---- C30 ----

InitAssembly == InitJob \/ InitFrames

NextAssembly == NextJob \/ NextFrames

\* One call of runTextingVideo from its working directory on, or one call
\* of writeVideoWithFfmpeg.
SpecAssembly == InitAssembly /\ [][NextAssembly]_vars

\* C30: media assembly fails the job on a failed encode or mux. A call
\* whose encode or mux exited non-zero or on a signal has failed, its
\* trimmer was never run and it has no final output file; the trimmer is
\* reached only with encode and mux both done and nothing failed; and the
\* frame directory of an encode exists while frames are written and encoded
\* and is gone once the encode has returned or thrown.
C30_AssemblyFailureFailsJob ==
  /\ failure \in {"encode", "mux"} =>
       /\ jobPc = "failed"
       /\ "trim" \notin stagesRun
       /\ ~finalOutputFile
  /\ jobPc \in {"trim", "done"} =>
       /\ failure = "none"
       /\ {"encode", "mux"} \subseteq stagesRun
  /\ finalOutputFile => jobPc = "done"
  /\ wvPc \in {"returned", "thrown"} => ~frameDirExists
  /\ wvPc \in {"write", "encode"} => frameDirExists

\* The mux has failed after a successful encode.
C30_Witness ==
  /\ jobPc = "failed"
  /\ failure = "mux"
  /\ "encode" \in stagesRun
  /\ ~finalOutputFile

\* An encode that had frames to encode has thrown, and its frame directory
\* is gone.
C30_FrameDirWitness ==
  /\ wvPc = "thrown"
  /\ frameIdx > 0
  /\ ~frameDirExists

\* ---- C31 ----

\* Threads of messages, breaks, intros and replies: every branch of the
\* loop body, with one or two clips per message.
TimelineLineChoices ==
  { <<"Bob", " ", ">", " ", "me", ":", " ", "hi", " ", "[", "knock", "]">>,
    <<"Bob", ":", " ", "pic.png">>,
    <<"<break", ":", "2", "s", ">">>,
    <<"plugsay", " ", ">", " ", "Bob", ":", " ", "hi">>,
    <<"plugsay", " ", ">", " ", "none", ":", " ", "hi">>,
    <<"plug", " ", ">", " ", "Bob", ":", " ", "yo">>,
    <<"rizzsay", ">", "none", ":", "hi">>,
    <<"rizz", " ", ">", " ", "Bob", ":", " ", "yo">> }

InitTimeline == InitParseFrom(ThreadScripts(TimelineLineChoices, MaxTimelineLines))

SpecTimeline == InitTimeline /\ [][NextBuild]_vars

\* C31: the timeline is contiguous. After any number of iterations of the
\* scene loop the scene list, the audio list and the message timeline have
\* the same length; the first record starts at 0, every other record starts
\* where the record before it ends, every record ends at its start plus the
\* measured duration of its clip, and the cursor is the end of the last
\* record, which is the sum of the measured durations of all clips so far.
C31_TimelineContiguous ==
  buildPc \in {"scenes", "muxed"} =>
    /\ Len(scenesData) = Len(wavFiles)
    /\ Len(wavFiles) = Len(messageTimeline)
    /\ messageTimeline # <<>> => messageTimeline[1].start = 0
    /\ \A k \in 2..Len(messageTimeline) :
         messageTimeline[k].start = messageTimeline[k - 1].end
    /\ \A k \in 1..Len(messageTimeline) :
         messageTimeline[k].end =
           messageTimeline[k].start + getAudioDuration(wavFiles[k])
    /\ curT = IF messageTimeline = <<>> THEN 0
              ELSE messageTimeline[Len(messageTimeline)].end
    /\ curT = TotalDuration(wavFiles)

\* A finished loop whose timeline holds an intro, its reply and a break.
C31_Witness ==
  /\ buildPc = "muxed"
  /\ Len(messageTimeline) >= 3
  /\ \E k \in 2..Len(sceneLog) :
       sceneLog[k - 1].part = "intro" /\ sceneLog[k].part = "reply"
  /\ \E k \in 1..Len(sceneLog) : sceneLog[k].part = "break"
  /\ curT >= 5

\* ---- C32 ----

\* The scene whose canvas writeVideoWithFfmpeg writes during scene k
\* (1745-1762): scene k itself when its canvas is not null, else the most
\* recent scene before it with a canvas; 0 when there is none, and then no
\* frame is written for scene k.
RECURSIVE ShownAt(_)
ShownAt(k) ==
  IF k = 0 THEN 0
  ELSE IF scenesData[k] # "null" THEN k
  ELSE ShownAt(k - 1)

\* Scene j holds a reaction-card frame obtained for the message of scene k.
OwnCard(j, k) ==
  /\ j > 0
  /\ scenesData[j] \in {"plugFrame", "framePartial", "frameFull"}
  /\ sceneLog[j].thread = sceneLog[k].thread
  /\ sceneLog[j].message = sceneLog[k].message

\* C32: the reply scene of every plug or rizz message shows the reaction
\* card obtained for that message, whether its intro is spoken, silent with
\* an effect or silent without one.
C32_ReplyShowsOwnCard ==
  \A k \in 1..Len(sceneLog) :
    sceneLog[k].part = "reply" => OwnCard(ShownAt(k), k)

\* The same for the replies that follow an intro scene of their own message
\* and for every rizz reply.
ReplyShowsOwnCardAfterIntroScene ==
  \A k \in 1..Len(sceneLog) :
    /\ sceneLog[k].part = "reply"
    /\ \/ Flag(MessageOf(sceneLog[k]), "is_rizz")
       \/ k > 1 /\ sceneLog[k - 1].part = "intro"
    => OwnCard(ShownAt(k), k)

\* A rizz reply with a silent intro and a plug reply after a spoken intro
\* have both been built.
ReplyAfterIntroSceneWitness ==
  \E a, b \in 1..Len(sceneLog) :
    /\ sceneLog[a].part = "reply" /\ scenesData[a] = "frameFull"
    /\ (a = 1 \/ sceneLog[a - 1].part # "intro")
    /\ sceneLog[b].part = "reply" /\ scenesData[b] = "null"
    /\ b > 1 /\ sceneLog[b - 1].part = "intro"

\* ---- C33 ----

\* Scripts in which lines of every message-pushing kind may come before the
\* first thread header, between headers and after the last one.
PreambleLineChoices ==
  { <<"iMessage", ":", " ", "Bob">>,
    <<"iMessage", " ", "Al", " ", ">", " ", "x", ":", " ", "al.png">>,
    <<"Bob", " ", ">", " ", "me", ":", " ", "hi">>,
    <<"me", ":", " ", "yo">>,
    <<"<break", ":", "2", "s", ">">>,
    <<"plug", " ", ">", " ", "Bob", ":", " ", "sup">>,
    <<"rizz", " ", ">", " ", "Bob", ":", " ", "hey">> }

InitPreamble == InitParseFrom(SeqsUpTo(PreambleLineChoices, MaxPreambleLines))

SpecPreamble == InitPreamble /\ [][NextParse]_vars

\* The text each message-pushing line of ls gives its message, in line
\* order, for lines read while a thread is open.
RECURSIVE TextsOf(_)
TextsOf(ls) ==
  IF ls = <<>> THEN <<>>
  ELSE LET b == Branch(Head(ls))
           rest == TextsOf(Tail(ls))
       IN CASE b = "break" -> <<BreakMsg(Head(ls)).text>> \o rest
            [] b = "plug" ->
                 <<PlugMsg(MatchKeyword(Head(ls), "plug")[1], <<>>).text>> \o rest
            [] b = "rizz" ->
                 <<RizzMsg(MatchKeyword(Head(ls), "rizz")[1], <<>>).text>> \o rest
            [] b = "twopart" -> <<TwoPartMsg(Head(ls)).text>> \o rest
            [] b = "single" -> <<SinglePartMsg(Head(ls)).text>> \o rest
            [] OTHER -> rest

\* For each header from position `from` on whose thread has a message, in
\* header order, the texts of the lines between it and the next header.
RECURSIVE TextsByHeader(_, _)
TextsByHeader(ls, from) ==
  LET hs == {h \in HeadersIn(ls, Len(ls)) : h >= from}
  IN IF hs = {} THEN <<>>
     ELSE LET h == MinOf(hs)
              texts == TextsOf(SegmentOf(ls, h, Len(ls)))
          IN (IF texts # <<>> THEN <<texts>> ELSE <<>>)
             \o TextsByHeader(ls, h + 1)

\* The lines read before the first thread header.
Preamble ==
  LET hs == HeadersIn(filteredLines, lineIdx)
  IN SubSeq(filteredLines, 1, IF hs = {} THEN lineIdx ELSE MinOf(hs) - 1)

\* C33: lines before the first thread header give no message to any thread.
\* While no header has been read the thread list is empty; the first header
\* pushes no thread and opens its thread with no message; and in the parse
\* result the messages of each thread are exactly those of the lines
\* between its header and the next one, in line order, so that every
\* message is in the thread of the nearest header before its line.
C33_PreambleContributesNothing ==
  /\ parsePc \in {"pass2", "done"} =>
       /\ HeadersIn(filteredLines, lineIdx) = {} => threads = <<>>
       /\ (lineIdx > 0 /\ IsHeader(filteredLines[lineIdx])) => currentMsgs = <<>>
       /\ (lineIdx > 0 /\ HeadersIn(filteredLines, lineIdx) = {lineIdx})
            => threads = <<>>
  /\ parsePc = "done" =>
       [i \in 1..Len(threads) |->
          [k \in 1..Len(threads[i].messages) |-> threads[i].messages[k].text]]
         = TextsByHeader(filteredLines, 1)

\* A parse that read a two-part or single-part message and a break or reply
\* line before the first header, and returned a thread.
C33_Witness ==
  /\ parsePc = "done"
  /\ threads # <<>>
  /\ \E i, j \in 1..Len(Preamble) :
       /\ Branch(Preamble[i]) \in {"twopart", "single"}
       /\ handledAs[i].pushed = 1
       /\ Branch(Preamble[j]) \in {"break", "plug", "rizz"}
       /\ handledAs[j].pushed = 0

\* ---- C34 ----

\* Threads with two different plug intros, a rizz intro, both replies and
\* lines of the kinds that may come between an intro and its reply.
PendingLineChoices ==
  { <<"iMessage", ":", " ", "Al">>,
    <<"Bob", " ", ">", " ", "me", ":", " ", "hi">>,
    <<"<break", ":", "2", "s", ">">>,
    <<"hello">>,
    <<"plugsay", " ", ">", " ", "Bob", ":", " ", "one">>,
    <<"plugsay", " ", ">", " ", "none", ":", " ", "two">>,
    <<"plug", " ", ">", " ", "Bob", ":", " ", "sup">>,
    <<"rizzsay", " ", ">", " ", "Bob", ":", " ", "three">>,
    <<"rizz", " ", ">", " ", "Bob", ":", " ", "hey">> }

InitPending == InitParseFrom(ThreadScripts(PendingLineChoices, MaxPendingLines))

SpecPending == InitPending /\ [][NextParse]_vars

\* C34: the life of a pending intro. A step of the second loop leaves both
\* pending intros as they were when its line is a break, a message, an
\* unmatched or a skipped line; an intro or reply line of one kind leaves
\* the pending intro of the other kind as it was; an intro line makes its
\* intro the pending one of its kind, whatever was pending; a reply line
\* clears the pending intro of its kind and a thread header clears both.
C34_PendingIntroLifetime ==
  [][(parsePc = "pass2" /\ lineIdx' = lineIdx + 1) =>
       LET line == filteredLines[lineIdx + 1]
           b == Branch(line)
       IN /\ b \in {"break", "twopart", "single", "none", "skipped"}
               => UNCHANGED <<pendingPlugsay, pendingRizzsay>>
          /\ b \in {"plugsay", "plug"} => UNCHANGED pendingRizzsay
          /\ b \in {"rizzsay", "rizz"} => UNCHANGED pendingPlugsay
          /\ b = "plugsay"
               => pendingPlugsay' = <<IntroOf(MatchKeyword(line, "plugsay")[1])>>
          /\ b = "rizzsay"
               => pendingRizzsay' = <<IntroOf(MatchKeyword(line, "rizzsay")[1])>>
          /\ b = "plug" => pendingPlugsay' = <<>>
          /\ b = "rizz" => pendingRizzsay' = <<>>
          /\ b = "thread" => pendingPlugsay' = <<>> /\ pendingRizzsay' = <<>>
     ]_vars

\* Two plug intros, then a rizz reply, then a break, then the plug reply:
\* the reply carries the second intro.
C34_Witness ==
  /\ parsePc = "done"
  /\ [i \in 1..Len(handledAs) |-> handledAs[i].branch]
       = <<"thread", "plugsay", "plugsay", "rizz", "plug">>
  /\ filteredLines[2] # filteredLines[3]
  /\ threads[1].messages[2].plugsay_text = IntroOf(MatchKeyword(filteredLines[3], "plugsay")[1]).text
  /\ threads[1].messages[1].rizzsay_text = <<>>

\* A rizz intro stays pending over a break, an unmatched line and a plug
\* reply.
C34_InterveningWitness ==
  /\ lineIdx = 5
  /\ [i \in 1..Len(handledAs) |-> handledAs[i].branch]
       = <<"thread", "rizzsay", "break", "none", "plug">>
  /\ pendingRizzsay # <<>>

\* ---- C35 ----

\* The server after its first job has come and gone: the entry was swept
\* and its files are removed.
InitSwept ==
  /\ FramesIdle
  /\ TrimIdle
  /\ JobIdle
  /\ ParseIdle
  /\ BuildIdle
  /\ jobs = <<>>
  /\ files = [j \in JobIds |-> [jobDir |-> FALSE, output |-> FALSE]]
  /\ workers = {}
  /\ exiting = <<>>
  /\ lastExit = NoExit
  /\ nextJob = 2
  /\ graceTimers = {}
  /\ response = NoResponse
  /\ sinceDone = <<>>

SpecSwept == InitSwept /\ [][NextServer]_vars

\* The interval timer of the sweep keeps firing (27, 56) and time passes;
\* nothing is assumed of workers and clients.
SpecSweptFair == SpecSwept /\ WF_vars(Tick) /\ WF_vars(Sweep)

\* C35: every job in the store eventually has status 'done' or 'error', and
\* every job with one of these statuses is eventually out of the store with
\* its working directory and its output file removed, provided the sweep
\* keeps firing and time passes.
C35_JobsFinishAndGo ==
  \A j \in JobIds :
    /\ (j \in DOMAIN jobs) ~> (j \in DOMAIN jobs /\ Finished(jobs[j]))
    /\ (j \in DOMAIN jobs /\ Finished(jobs[j]))
         ~> (j \notin DOMAIN jobs /\ ~files[j].jobDir /\ ~files[j].output)

\* A job whose worker never reported has been failed by the sweep.
C35_Witness ==
  \E j \in DOMAIN jobs :
    /\ jobs[j].status = "error"
    /\ jobs[j].error = "timeout"
    /\ j \in workers
    /\ ~files[j].jobDir

\* Every job the server could take has come and gone, with its files.
C35_AllGoneWitness ==
  /\ nextJob > MaxJobs
  /\ jobs = <<>>
  /\ \A j \in JobIds : ~files[j].jobDir /\ ~files[j].output

\* ---- C36 ----

\* C36: terminal job states are stable. No step changes the status, the
\* error text or the output path of a job whose status is 'done' or 'error'
\* and which stays in the store.
C36_TerminalStatesStable ==
  [][\A j \in DOMAIN jobs \cap DOMAIN jobs' :
       Finished(jobs[j]) =>
         /\ jobs'[j].status = jobs[j].status
         /\ jobs'[j].error = jobs[j].error
         /\ jobs'[j].outputPath = jobs[j].outputPath]_vars

\* The same for the finished jobs whose worker has reported or exited.
TerminalStatesStableAfterReport ==
  [][\A j \in DOMAIN jobs \cap DOMAIN jobs' :
       (Finished(jobs[j]) /\ j \notin workers) =>
         /\ jobs'[j].status = jobs[j].status
         /\ jobs'[j].error = jobs[j].error
         /\ jobs'[j].outputPath = jobs[j].outputPath]_vars

\* A job the sweep had failed is 'done', with the text of the timeout.
TimedOutThenDone ==
  \E j \in DOMAIN jobs : jobs[j].status = "done" /\ jobs[j].error = "timeout"

\* ---- C37 ----

\* C37: at most two pipelines run at any time. A job whose status is 'done'
\* or 'error' has no worker that is still running its pipeline, and no more
\* than two workers are running theirs.
C37_AtMostTwoWorkers ==
  /\ \A j \in DOMAIN jobs : Finished(jobs[j]) => j \notin workers
  /\ Cardinality(workers) <= 2

\* The second conjunct alone.
AtMostTwoPipelines == Cardinality(workers) <= 2

\* Three workers run their pipelines while the store counts two active jobs.
ThreePipelines ==
  /\ Cardinality(workers) = 3
  /\ ActiveCount(jobs) = 2
  /\ response.code = 200

\* ---- C38 ----

\* A store that holds more than JOB_MAX_STORE jobs: n jobs accepted within
\* the last twenty minutes, those up to c one period before the others. Job
\* r is running (for two periods when it is the first of the earlier ones),
\* job 3 is done and not yet downloaded, and all others failed on their
\* worker's report.
StoreSizes == {JOB_MAX_STORE + 1, JOB_MAX_STORE + 2}

InitStore ==
  /\ FramesIdle
  /\ TrimIdle
  /\ JobIdle
  /\ ParseIdle
  /\ BuildIdle
  /\ \E n \in StoreSizes, r \in {1, 2}, c \in {0, 1, 3} :
       \E R \in {{r}}, D \in {{3}} :
         /\ jobs = [j \in 1..n |->
                      [status |-> IF j \in R THEN "running"
                                  ELSE IF j \in D THEN "done" ELSE "error",
                       outputPath |-> j \in D,
                       error |-> IF j \in R \cup D THEN "none" ELSE "reported",
                       age |-> IF j = 1 /\ j \in R /\ c > 0 THEN RunningLimit
                               ELSE IF j <= c THEN 1 ELSE 0]]
         /\ files = [j \in 1..n |-> [jobDir |-> j \in R \cup D, output |-> j \in D]]
         /\ workers = R
         /\ nextJob = n + 1
         /\ sinceDone = [j \in D |-> 0]
  /\ exiting = <<>>
  /\ lastExit = NoExit
  /\ graceTimers = {}
  /\ response = NoResponse

SpecStore == InitStore /\ [][NextServer]_vars

\* The jobs a step takes out of the store.
Removed == DOMAIN jobs \ DOMAIN jobs'

\* C38: only finished jobs leave the store. Every job a step removes was
\* 'done' or 'error', or was 'running' past the limit and set to 'error' by
\* the same sweep; a sweep leaves at most JOB_MAX_STORE jobs, removing
\* beyond the expired ones no more than the excess; and every job it evicts
\* for the excess is at least as old as every finished job it keeps.
C38_OnlyFinishedJobsRemoved ==
  [][/\ \A j \in Removed : Finished(jobs[j]) \/ (Sweep /\ j \in Stuck(jobs))
     /\ Sweep =>
          /\ Cardinality(DOMAIN jobs') =
               Min(Cardinality(DOMAIN jobs \ Expired(jobs)), JOB_MAX_STORE)
          /\ \A e \in Removed \ Expired(jobs) :
               \A k \in DOMAIN jobs' :
                 Finished(jobs'[k]) => jobs[k].age <= jobs[e].age
    ]_vars

\* A sweep has evicted the oldest finished job of a store of more than
\* JOB_MAX_STORE young jobs and kept the older running one.
C38_Witness ==
  /\ Cardinality(DOMAIN jobs) = JOB_MAX_STORE
  /\ 1 \in DOMAIN jobs /\ jobs[1].status = "running" /\ jobs[1].age = RunningLimit
  /\ 2 \notin DOMAIN jobs
  /\ \A j \in DOMAIN jobs \ {1} : jobs[j].age <= JOB_TTL_MS
  /\ \E j \in DOMAIN jobs : jobs[j].age = 0 /\ Finished(jobs[j])

\* A sweep has failed the job that was running past the limit and evicted
\* it, as the oldest finished job, in the same pass.
C38_StuckEvictedWitness ==
  /\ Cardinality(DOMAIN jobs) = JOB_MAX_STORE
  /\ 1 \notin DOMAIN jobs
  /\ 1 \in workers
  /\ 2 \in DOMAIN jobs /\ jobs[2].age = JOB_TTL_MS

\* A download timer has removed a done job.
C38_DownloadWitness ==
  /\ Cardinality(DOMAIN jobs) > JOB_MAX_STORE
  /\ 3 \notin DOMAIN jobs
  /\ graceTimers = {}

\* The report of job j's worker is handled in this step.
Reports(j, report) ==
  /\ j \in workers
  /\ j \notin DOMAIN exiting
  /\ j \in DOMAIN exiting'
  /\ exiting'[j] = report

\* Job j's worker exits in this step.
Exits(j) == lastExit'.job = j

\* Job j is failed with an error text and its working directory is gone.
FailedAndCleaned(js, fs, j) ==
  /\ js[j].status = "error"
  /\ js[j].error # "none"
  /\ ~fs[j].jobDir
  /\ ~fs[j].output

\* C39: when a worker's 'error' report is handled, or a worker that has sent
\* no report exits, with whatever code, while its job is 'running', the job
\* gets status 'error' with an error text and its working directory is
\* removed in the same step; the exit of a worker that has sent 'done' or
\* 'error' changes neither the store nor the files; an 'error' report is
\* followed by an exit with code 1, and a 'done' report comes with the
\* output path.
C39_WorkerFailureHandled ==
  [][ \A j \in JobIds :
        /\ Reports(j, "error") /\ j \in DOMAIN jobs =>
             FailedAndCleaned(jobs', files', j)
        /\ ( /\ Exits(j)
             /\ lastExit'.report = "none"
             /\ j \in DOMAIN jobs
             /\ jobs[j].status = "running" ) =>
             FailedAndCleaned(jobs', files', j)
        /\ Exits(j) /\ lastExit'.report \in {"done", "error"} =>
             /\ jobs' = jobs
             /\ files' = files
        /\ Exits(j) /\ lastExit'.report = "error" => lastExit'.code = "1"
        /\ Reports(j, "done") /\ j \in DOMAIN jobs =>
             /\ jobs'[j].status = "done"
             /\ jobs'[j].outputPath
    ]_vars

\* One worker has reported an error and exited, and the other has been ended
\* by a signal without a report: both jobs are failed and cleaned.
C39_Witness ==
  /\ lastExit.job = 3
  /\ lastExit.report = "none"
  /\ lastExit.code = "null"
  /\ 3 \in DOMAIN jobs /\ jobs[3].error = "exit"
  /\ FailedAndCleaned(jobs, files, 3)
  /\ 2 \in DOMAIN jobs /\ jobs[2].error = "reported"
  /\ FailedAndCleaned(jobs, files, 2)
  /\ workers = {} /\ exiting = <<>>

\* A worker has exited after its 'done' report and the job is still done,
\* with its output file.
C39_ExitAfterDoneWitness ==
  /\ lastExit.job = 2
  /\ lastExit.report = "done"
  /\ lastExit.code = "0"
  /\ 2 \in DOMAIN jobs /\ jobs[2].status = "done" /\ jobs[2].outputPath
  /\ files[2].output

====
